---- MODULE Spec2Model ----
(***************************************************************************)
(* A model of the source resolver (services/resolver.py), the data sources *)
(* it dispatches to (sources/*.py) and the two-tier TTL cache              *)
(* (utils/cache.py) of the college-basketball MCP server.                   *)
(***************************************************************************)
EXTENDS Integers, Sequences, FiniteSets, TLC

VARIABLES
    rpc,        \* position of the resolve() coroutine: idle, acquire, call, done
    r_cap,      \* resolve(): the capability argument
    r_method,   \* resolve(): the method_name argument
    r_sources,  \* resolve(): the local list `sources`
    r_idx,      \* resolve(): index of the loop variable `source` in r_sources
    r_errors,   \* resolve(): the local list `errors`
    r_result,   \* what resolve() returned or raised
    r_log,      \* history: the source method invocations of this call, in order
    r_tokens,   \* history: the sources a limiter token was acquired for, in order
    limiters,   \* rate_limiter._limiters: source name -> its TokenBucket object
    calls,      \* number of resolve() calls started so far
    r_prev,     \* history: how the previous resolve() call ended
    mem_cache,  \* cache._mem_cache: key -> (expire, data)
    disk,       \* the files of settings.cache_dir: key -> content of {key}.json
    now,        \* time.time()
    cache_enabled, \* settings.cache_enabled
    puts,       \* number of put() calls that stored an entry so far
    c_last      \* history: the most recent cache call and what it returned; for a
                \* get() that directly follows a put() of the same pair, that put

VARIABLES
    tb_period,      \* TokenBucket: clock ticks per token, i.e. rate = 1 / tb_period
    tb_capacity,    \* TokenBucket.capacity, in tokens
    tb_tokens,      \* TokenBucket.tokens, in units of 1 / tb_period token
    tb_last_refill, \* TokenBucket.last_refill
    tb_clock,       \* time.monotonic(), in ticks
    tb_created,     \* history: when the bucket was constructed
    tb_locked,      \* TokenBucket._lock: the caller holding it, 0 when free
    tb_waiters,     \* TokenBucket._lock: the callers queued on it, in order
    tb_pc,          \* position of each caller: idle, queued, sleeping
    tb_wake,        \* for a sleeping caller, when its asyncio.sleep is over
    tb_started,     \* history: number of acquire() calls made
    tb_returned,    \* history: number of acquire() calls that returned
    tb_first,       \* history: time of the first acquire() call, -1 before it
    tb_last_return  \* history: time of the latest return of an acquire()

VARIABLES
    f_pc,         \* position of the fetch_json() coroutine: idle, request, sleep, done
    f_retries,    \* fetch_json(): the retries argument
    f_attempt,    \* fetch_json(): the loop variable `attempt`
    f_last_error, \* fetch_json(): the local `last_error`
    f_outcome,    \* what fetch_json() returned or raised
    f_log,        \* history: what each request of this call met, in order
    f_sleeps      \* history: the asyncio.sleep calls of this call: after which
                  \* attempt, and for how many multiples of `backoff`

VARIABLES
    s_pc,       \* position of the games.get_live_scores() coroutine: idle, resolving
    s_args,     \* get_live_scores(): cache_key_args of the call
    s_ret,      \* history: what the latest call returned and where it came from
    s_resolved, \* history: per cache_key_args, the latest result resolve() returned
    s_before,   \* history: s_resolved[s_args] as it was when the latest call began
    s_calls,    \* number of get_live_scores() calls made so far
    up_status,  \* the upstream state of the day's game g1: none (not listed), pre, in, post
    s_seen      \* history: the furthest status of g1 returned to a caller so far

VARIABLES
    g_value,     \* server._concurrency._value
    g_waiters,   \* server._concurrency._waiters: the queued tool calls, in order
    g_woken,     \* the queued tool calls whose future has been given its result
    g_body,      \* number of tool calls inside the `async with _concurrency` body
    g_arrived,   \* number of tool calls made so far; a call is named by its number
    g_served,    \* history: number of tool calls that entered the body after queueing
    g_last_exit  \* history: how the latest tool call left its body

VARIABLES
    v_pc,      \* position of a tool coroutine: idle, service, done
    v_tool,    \* the tool called
    v_args,    \* the arguments it was called with, in the order it validates them
    v_clean,   \* the validated arguments passed on to the service layer
    v_result,  \* what the tool returned or raised
    v_ops      \* history: service-layer calls (cache, resolver, network) of this call

VARIABLES
    k_current,  \* a poll entry's current rank
    k_previous, \* the entry's previous rank
    k_espn,     \* RankedTeam.trend as ESPNSource.get_rankings derives it
    k_ncaa      \* RankedTeam.trend as NCAASource._calc_trend derives it

VARIABLES
    box         \* the TeamBoxScore a source's get_box_score built last, and the source

VARIABLES
    h_hung      \* the upstream of the source method in flight has stopped answering

VARIABLES
    teams       \* the state of services/teams.py: the directory, its lock, the callers

VARIABLES
    mcp         \* an MCPClient object, the connections it opened and the coroutines using it

rvars == <<rpc, r_cap, r_method, r_sources, r_idx, r_errors, r_result, r_log,
           r_tokens, limiters, calls, r_prev>>

cvars == <<mem_cache, disk, now, cache_enabled, puts, c_last>>

tvars == <<tb_period, tb_capacity, tb_tokens, tb_last_refill, tb_clock, tb_created, tb_locked,
           tb_waiters, tb_pc, tb_wake, tb_started, tb_returned, tb_first,
           tb_last_return>>

\* The state of the components other than the resolver and the cache.
fvars == <<f_pc, f_retries, f_attempt, f_last_error, f_outcome, f_log, f_sleeps>>

svars == <<s_pc, s_args, s_ret, s_resolved, s_before, s_calls, up_status, s_seen>>

gvars == <<g_value, g_waiters, g_woken, g_body, g_arrived, g_served, g_last_exit>>

vvars == <<v_pc, v_tool, v_args, v_clean, v_result, v_ops>>

kvars == <<k_current, k_previous, k_espn, k_ncaa>>

bvars == <<box>>

hvars == <<h_hung>>

dvars == <<teams>>

mvars == <<mcp>>

nvars == <<bvars, hvars, dvars, mvars>>

ovars == <<tvars, fvars, svars, gvars, vvars, kvars, nvars>>

vars == <<rvars, cvars, ovars>>

(***************************************************************************)
(* Bounds of the model.                                                     *)
(***************************************************************************)
MaxCalls == 2
MaxTime == 2
MaxTTL == 2
MaxPuts == 2
MaxPeriod == 2
MaxCapacity == 2
MaxAcquires == 4
MaxClock == 4
NumCallers == 2
MaxRetries == 2
MaxServiceCalls == 3
MaxToolCalls == 52
MaxRank == 25

(***************************************************************************)
(* sources/base.py: the capability enum and the methods of DataSource.      *)
(***************************************************************************)
DataCapability ==
    {"LIVE_SCORES", "TEAM_INFO", "TEAM_SEARCH", "ROSTER", "SCHEDULE",
     "GAME_DETAIL", "BOX_SCORE", "PLAY_BY_PLAY", "RANKINGS", "STANDINGS",
     "TEAM_STATS", "PLAYER_STATS", "STAT_LEADERS", "TOURNAMENT"}

\* Every method DataSource defines; each raises NotImplementedError there.
DataSourceMethods ==
    {"get_live_scores", "get_team", "search_teams", "get_roster",
     "get_schedule", "get_game_detail", "get_box_score", "get_play_by_play",
     "get_rankings", "get_standings", "get_team_stats", "get_player_stats",
     "get_stat_leaders"}

\* services/resolver.py: the whitelist of method names.
ALLOWED_METHODS ==
    {"get_live_scores", "get_team", "search_teams", "get_roster",
     "get_schedule", "get_game_detail", "get_box_score", "get_play_by_play",
     "get_rankings", "get_standings", "get_team_stats", "get_player_stats",
     "get_stat_leaders"}

allowed_any(method_name) == TRUE

\* `method_name not in _ALLOWED_METHODS`, negated
allowed(method_name) == method_name \in ALLOWED_METHODS

\* Method names a caller may pass: the whitelisted ones and one that is not.
MethodNames == ALLOWED_METHODS \cup {"capabilities"}

(***************************************************************************)
(* The four configured sources: name, priority, declared capabilities and   *)
(* the methods the class itself implements (overrides).                     *)
(***************************************************************************)
espn_capabilities ==
    {"LIVE_SCORES", "TEAM_INFO", "TEAM_SEARCH", "ROSTER", "SCHEDULE",
     "GAME_DETAIL", "BOX_SCORE", "PLAY_BY_PLAY", "RANKINGS", "STANDINGS",
     "TEAM_STATS", "PLAYER_STATS", "STAT_LEADERS"}

ncaa_capabilities_with_search ==
    {"LIVE_SCORES", "RANKINGS", "TEAM_INFO", "GAME_DETAIL", "TEAM_SEARCH"}

ncaa_capabilities ==
    {"LIVE_SCORES", "RANKINGS", "TEAM_INFO", "GAME_DETAIL"}

sportsdataverse_capabilities ==
    {"LIVE_SCORES", "SCHEDULE", "BOX_SCORE", "PLAY_BY_PLAY", "TEAM_INFO"}

cbbpy_capabilities ==
    {"LIVE_SCORES", "BOX_SCORE", "PLAY_BY_PLAY", "SCHEDULE"}

ESPNSource ==
    [name |-> "espn", priority |-> 1, capabilities |-> espn_capabilities,
     methods |-> DataSourceMethods]

NCAASource ==
    [name |-> "ncaa", priority |-> 2, capabilities |-> ncaa_capabilities,
     methods |-> {"get_live_scores", "get_rankings"}]

SportsdataverseSource ==
    [name |-> "sportsdataverse", priority |-> 3,
     capabilities |-> sportsdataverse_capabilities,
     methods |-> {"get_live_scores", "get_schedule", "get_box_score",
                  "get_play_by_play"}]

CbbpySource ==
    [name |-> "cbbpy", priority |-> 4, capabilities |-> cbbpy_capabilities,
     methods |-> {"get_live_scores", "get_box_score", "get_play_by_play"}]

SourceNames == {"espn", "ncaa", "sportsdataverse", "cbbpy"}

\* sorted(list, key=lambda s: s.priority): a stable insertion sort.
RECURSIVE InsertByPriority(_, _)
InsertByPriority(s, sorted) ==
    IF sorted = <<>> THEN <<s>>
    ELSE IF s.priority < Head(sorted).priority
         THEN <<s>> \o sorted
         ELSE <<Head(sorted)>> \o InsertByPriority(s, Tail(sorted))

RECURSIVE InsertByPriorityDescending(_, _)
InsertByPriorityDescending(s, sorted) ==
    IF sorted = <<>> THEN <<s>>
    ELSE IF s.priority > Head(sorted).priority
         THEN <<s>> \o sorted
         ELSE <<Head(sorted)>> \o InsertByPriorityDescending(s, Tail(sorted))

RECURSIVE SortedDescending(_)
SortedDescending(list) ==
    IF list = <<>> THEN <<>>
    ELSE InsertByPriorityDescending(list[Len(list)],
                                    SortedDescending(SubSeq(list, 1, Len(list) - 1)))

RECURSIVE SortedByPriority(_)
SortedByPriority(list) ==
    IF list = <<>> THEN <<>>
    ELSE InsertByPriority(list[Len(list)],
                          SortedByPriority(SubSeq(list, 1, Len(list) - 1)))

sources_descending ==
    SortedDescending(<<ESPNSource, NCAASource, SportsdataverseSource, CbbpySource>>)

\* resolver._sources
sources ==
    SortedByPriority(<<ESPNSource, NCAASource, SportsdataverseSource, CbbpySource>>)

get_sources_for_unfiltered(capability) == sources

RECURSIVE SelectSeq2(_, _)
SelectSeq2(list, capability) ==
    IF list = <<>> THEN <<>>
    ELSE IF capability \in Head(list).capabilities
         THEN <<Head(list)>> \o SelectSeq2(Tail(list), capability)
         ELSE SelectSeq2(Tail(list), capability)

\* resolver.get_sources_for: [s for s in _sources if capability in s.capabilities()]
get_sources_for(capability) == SelectSeq2(sources, capability)

\* getattr(source, method_name, None): the class's own methods and those it
\* inherits from DataSource.
HasMethod(s, method_name) == method_name \in (s.methods \cup DataSourceMethods)

\* The domain "not found" errors ESPNSource raises (TeamNotFoundError from
\* get_team, GameNotFoundError from the three summary-based methods).
NotFoundMethods == {"get_team", "get_game_detail", "get_box_score", "get_play_by_play"}

\* How one invocation of source s's method can end:
\*   ok               it returns a normalized result
\*   SourceError      it raises SourceError(self.name, ...)
\*   NotFound         it raises TeamNotFoundError / GameNotFoundError
\*   Exception        any other exception escapes it (a parse error past the try)
\*   NotImplemented   the inherited DataSource method raises NotImplementedError
Outcomes(s, method_name) ==
    IF method_name \notin s.methods THEN {"NotImplemented"}
    ELSE {"ok", "SourceError", "Exception"}
         \cup (IF s.name = "espn" /\ method_name \in NotFoundMethods
               THEN {"NotFound"} ELSE {})

NoResult == [kind |-> "none", source |-> "none"]

\* resolver._rate_limits.get(source.name, 5), with the default settings.
rate_limits(name) ==
    CASE name = "espn" -> 10
      [] name = "ncaa" -> 5
      [] name = "sportsdataverse" -> 5
      [] name = "cbbpy" -> 3
      [] OTHER -> 5

\* A TokenBucket object: `id` tells two objects apart (the n-th constructed).
NoBucket == [id |-> 0, rate |-> 0]

\* The number of TokenBucket objects constructed so far.
Constructed(lims) == Cardinality({lims[n].id : n \in DOMAIN lims})

get_limiter_always_new(lims, source, rate) ==
    [n \in (DOMAIN lims) \cup {source} |->
        IF n = source
        THEN [id |-> 1 + Cardinality(DOMAIN lims) + (IF source \in DOMAIN lims THEN lims[source].id ELSE 0),
              rate |-> rate]
        ELSE lims[n]]

\* rate_limiter.get_limiter(source, rate): _limiters after the call; the
\* bucket returned is the one under `source`.
get_limiter(lims, source, rate) ==
    IF source \in DOMAIN lims THEN lims
    ELSE [n \in (DOMAIN lims) \cup {source} |->
             IF n = source THEN [id |-> Constructed(lims) + 1, rate |-> rate]
             ELSE lims[n]]

RInit ==
    /\ rpc = "idle"
    /\ r_cap = "LIVE_SCORES"
    /\ r_method = "get_live_scores"
    /\ r_sources = <<>>
    /\ r_idx = 0
    /\ r_errors = <<>>
    /\ r_result = NoResult
    /\ r_log = <<>>
    /\ r_tokens = <<>>
    /\ limiters = [n \in {} |-> NoBucket]
    /\ calls = 0
    /\ r_prev = "none"

(***************************************************************************)
(* resolve(): one action per stretch of code between two suspension points. *)
(***************************************************************************)

\* What the `for` loop does with the outcome of `await method(...)`: a
\* normal return leaves resolve() at once, anything raised is caught and
\* the loop goes on.
AfterCallNeverReturns(outcome) == "continue"

AfterCall(outcome) == IF outcome = "ok" THEN "return" ELSE "continue"

\* The two except clauses: a SourceError is appended as raised (the sources
\* raise it with their own name), any other Exception is wrapped into
\* SourceError(source.name, str(e)) and appended.
RecordErrorSourceErrorOnly(errors, s, outcome) ==
    IF outcome = "SourceError"
    THEN Append(errors, [source |-> s.name, wrapped |-> FALSE])
    ELSE errors

RecordError(errors, s, outcome) ==
    IF outcome = "SourceError"
    THEN Append(errors, [source |-> s.name, wrapped |-> FALSE])
    ELSE Append(errors, [source |-> s.name, wrapped |-> TRUE])

\* The head of the loop body: `method = getattr(...)`, `if not method: continue`.
\* The index of the first source at or after i that has the method.
RECURSIVE NextWithMethod(_, _, _)
NextWithMethod(list, i, method_name) ==
    IF i > Len(list) THEN i
    ELSE IF HasMethod(list[i], method_name) THEN i
         ELSE NextWithMethod(list, i + 1, method_name)

\* Run the loop from index i up to the next suspension point: either the
\* limiter of the next source with the method is fetched (created on first
\* use) and awaited, or the list is exhausted and AllSourcesFailedError is
\* raised with the errors recorded so far.
LoopFrom(list, i, method_name, errors) ==
    LET j == NextWithMethod(list, i, method_name) IN
    /\ r_errors' = errors
    /\ IF j > Len(list)
       THEN /\ rpc' = "done"
            /\ r_idx' = j
            /\ r_result' = [kind |-> "AllSourcesFailedError", source |-> "none"]
            /\ limiters' = limiters
       ELSE /\ rpc' = "acquire"
            /\ r_idx' = j
            /\ r_result' = NoResult
            /\ limiters' = get_limiter(limiters, list[j].name, rate_limits(list[j].name))

\* resolve(capability, method_name, ...) up to its first suspension point.
resolve_begin(capability, method_name) ==
    /\ UNCHANGED <<cvars, ovars>>
    /\ rpc = "idle"
    /\ calls < MaxCalls
    /\ calls' = calls + 1
    /\ r_prev' = r_result.kind
    /\ r_cap' = capability
    /\ r_method' = method_name
    /\ r_log' = <<>>
    /\ r_tokens' = <<>>
    /\ IF ~allowed(method_name)
       THEN /\ rpc' = "done"
            /\ r_result' = [kind |-> "ValueError", source |-> "none"]
            /\ r_sources' = <<>>
            /\ r_idx' = 0
            /\ r_errors' = <<>>
            /\ limiters' = limiters
       ELSE LET list == get_sources_for(capability) IN
            /\ r_sources' = list
            /\ IF list = <<>>
               THEN /\ rpc' = "done"
                    /\ r_result' = [kind |-> "AllSourcesFailedError", source |-> "none"]
                    /\ r_idx' = 0
                    /\ r_errors' = <<>>
                    /\ limiters' = limiters
               ELSE LoopFrom(list, 1, method_name, <<>>)

\* `await limiter.acquire()` returns: the token is taken and the source's
\* method is invoked.
resolve_acquired ==
    /\ UNCHANGED <<cvars, ovars>>
    /\ rpc = "acquire"
    /\ rpc' = "call"
    /\ r_tokens' = Append(r_tokens, r_sources[r_idx].name)
    /\ r_log' = Append(r_log, [source |-> r_sources[r_idx].name, outcome |-> "pending"])
    /\ UNCHANGED <<r_cap, r_method, r_sources, r_idx, r_errors, r_result, limiters,
                   calls, r_prev>>

\* `await method(*args, **kwargs)` ends with `outcome`.
resolve_returned(outcome) ==
    /\ UNCHANGED <<cvars, ovars>>
    /\ rpc = "call"
    /\ outcome \in Outcomes(r_sources[r_idx], r_method)
    /\ r_log' = [r_log EXCEPT ![Len(r_log)].outcome = outcome]
    /\ IF AfterCall(outcome) = "return"
       THEN /\ rpc' = "done"
            /\ r_result' = [kind |-> "value", source |-> r_sources[r_idx].name]
            /\ UNCHANGED <<r_idx, r_errors, limiters>>
       ELSE LoopFrom(r_sources, r_idx + 1, r_method,
                     IF outcome = "ok" THEN r_errors
                     ELSE RecordError(r_errors, r_sources[r_idx], outcome))
    /\ UNCHANGED <<r_cap, r_method, r_sources, r_tokens, calls, r_prev>>

\* The caller has the result (or the exception); the coroutine is gone.
resolve_finished ==
    /\ UNCHANGED <<cvars, ovars>>
    /\ rpc = "done"
    /\ rpc' = "idle"
    /\ UNCHANGED <<r_cap, r_method, r_sources, r_idx, r_errors, r_result, r_log,
                   r_tokens, limiters, calls, r_prev>>

(***************************************************************************)
(* utils/cache.py: the two-layer TTL cache.                                 *)
(***************************************************************************)

\* The (namespace, args) pairs callers use.
CachePairs ==
    {[ns |-> "n", args |-> <<"a|b">>],
     [ns |-> "n", args |-> <<"a", "b">>],
     [ns |-> "m", args |-> <<"b", "a">>]}

\* The payloads callers store, by Python type.
Data == {"dict", "tuple"}

\* '|'.join(args)
RECURSIVE Join(_, _)
Join(args, sep) ==
    IF args = <<>> THEN ""
    ELSE IF Len(args) = 1 THEN args[1]
         ELSE args[1] \o sep \o Join(Tail(args), sep)

\* hashlib.sha256(raw.encode()).hexdigest(), taken as collision-free: the
\* digest stands for the string it was computed from.
sha256(raw) == raw

cache_key_namespace_only(namespace, args) == sha256(namespace \o ":")

\* _cache_key(namespace, *args)
cache_key(namespace, args) == sha256(namespace \o ":" \o Join(args, "|"))

\* json.loads(json.dumps(data, default=str)): a tuple comes back as a list.
JsonRoundTrip(data) == IF data = "tuple" THEN "list" ELSE data

\* `time.time() < expire`
UnexpiredInclusive(t, expire) == t <= expire

Unexpired(t, expire) == t < expire

\* `expire = time.time() + ttl`
ExpireAtNoTtl(t, ttl) == t

ExpireAt(t, ttl) == t + ttl

\* dict operations
DictSet(f, k, v) == [x \in (DOMAIN f) \cup {k} |-> IF x = k THEN v ELSE f[x]]

DictDel(f, k) == [x \in (DOMAIN f) \ {k} |-> f[x]]

EmptyDict == [x \in {} |-> 0]

NoPair == [ns |-> "", args |-> <<>>]

NoCall ==
    [op |-> "none", pair |-> NoPair, hit |-> FALSE, data |-> "none",
     expire |-> 0, tier |-> "none", owner |-> NoPair, born |-> 0,
     ttl |-> 0, put_data |-> "none", put_at |-> 0, put_ttl |-> 0]

CInit ==
    /\ mem_cache = EmptyDict
    /\ disk = EmptyDict
    /\ now = 0
    /\ cache_enabled = TRUE
    /\ puts = 0
    /\ c_last = NoCall

\* The memory check of get(): the entry is there and `time.time() < expire`.
MemHit(key) == key \in DOMAIN mem_cache /\ Unexpired(now, mem_cache[key].expire)

\* The disk check of get(), reached when the memory check did not return:
\* the file exists, decodes, and `time.time() < raw.get("expire", 0)`.
DiskHit(key) ==
    /\ ~MemHit(key)
    /\ key \in DOMAIN disk
    /\ disk[key].kind = "entry"
    /\ Unexpired(now, disk[key].expire)

\* The files of the cache directory, by content: "entry", what put() writes;
\* "badjson", text json.loads rejects; "nonobject", JSON that is not an
\* object, such as []; "noexpire", an object without "expire"; "nodata", an
\* object with an "expire" in the future and no "data".
CorruptKinds == {"badjson", "nonobject", "noexpire", "nodata"}

\* The disk check of get() ends in an exception its except clause does not
\* list: `raw.get` on a value that is no dict is an AttributeError.
DiskRaises(key) ==
    /\ ~MemHit(key)
    /\ key \in DOMAIN disk
    /\ disk[key].kind = "nonobject"

\* get() without its `if not settings.cache_enabled` return.
LookupIgnoringEnabled(namespace, args) ==
    LET key == cache_key(namespace, args)
        miss == [NoCall EXCEPT !.op = "get", !.pair = [ns |-> namespace, args |-> args]]
    IN
    IF MemHit(key)
    THEN [miss EXCEPT !.hit = TRUE, !.tier = "mem",
                      !.data = mem_cache[key].data, !.expire = mem_cache[key].expire,
                      !.owner = mem_cache[key].owner, !.born = mem_cache[key].born]
    ELSE miss

\* What get(namespace, *args) returns in the current state.
Lookup(namespace, args) ==
    LET key == cache_key(namespace, args)
        miss == [NoCall EXCEPT !.op = "get", !.pair = [ns |-> namespace, args |-> args]]
    IN
    IF ~cache_enabled THEN miss
    ELSE IF MemHit(key)
    THEN [miss EXCEPT !.hit = TRUE, !.tier = "mem",
                      !.data = mem_cache[key].data, !.expire = mem_cache[key].expire,
                      !.owner = mem_cache[key].owner, !.born = mem_cache[key].born]
    ELSE IF DiskHit(key)
    THEN [miss EXCEPT !.hit = TRUE, !.tier = "disk",
                      !.data = disk[key].data, !.expire = disk[key].expire,
                      !.owner = disk[key].owner, !.born = disk[key].born]
    ELSE IF DiskRaises(key) THEN [miss EXCEPT !.op = "get_raised"]
    ELSE miss

\* get(namespace, *args): a memory entry that is unexpired is returned; an
\* expired one is deleted and the disk file is read: an unexpired file
\* repopulates memory and is returned; an expired one, one that is no JSON
\* and an object that lacks a key are unlinked; on JSON that is no object
\* get() raises and the file stays.
get(namespace, args) ==
    LET key == cache_key(namespace, args)
        follows == c_last.op = "put" /\ c_last.pair = [ns |-> namespace, args |-> args]
    IN
    /\ UNCHANGED <<rvars, ovars, now, cache_enabled, puts>>
    /\ c_last' = IF follows
                 THEN [Lookup(namespace, args) EXCEPT !.put_data = c_last.data,
                                                      !.put_at = c_last.born,
                                                      !.put_ttl = c_last.ttl]
                 ELSE Lookup(namespace, args)
    /\ IF ~cache_enabled \/ MemHit(key)
       THEN UNCHANGED <<mem_cache, disk>>
       ELSE IF DiskHit(key)
       THEN /\ mem_cache' = DictSet(mem_cache, key,
                                    [expire |-> disk[key].expire, data |-> disk[key].data,
                                     owner |-> disk[key].owner, born |-> disk[key].born])
            /\ UNCHANGED disk
       ELSE IF DiskRaises(key)
       THEN /\ mem_cache' = DictDel(mem_cache, key)
            /\ UNCHANGED disk
       ELSE /\ mem_cache' = DictDel(mem_cache, key)
            /\ disk' = DictDel(disk, key)

\* put(namespace, *args, data=data, ttl=ttl).  `write` is how the disk write
\* ends: "ok"; "untouched", an OSError before the file is opened for writing
\* (mkdir or open fails), which leaves the old file; "truncated", an OSError
\* after the file was opened, which leaves a partial file.
put(namespace, args, data, ttl, write) ==
    LET key == cache_key(namespace, args)
        pair == [ns |-> namespace, args |-> args]
        expire == ExpireAt(now, ttl)
    IN
    /\ UNCHANGED <<rvars, ovars, now, cache_enabled>>
    /\ IF ~cache_enabled
       THEN /\ c_last' = [NoCall EXCEPT !.op = "put_disabled", !.pair = pair]
            /\ UNCHANGED <<mem_cache, disk, puts>>
       ELSE /\ puts < MaxPuts
            /\ puts' = puts + 1
            /\ c_last' = [NoCall EXCEPT !.op = "put", !.pair = pair,
                                        !.data = data, !.expire = expire,
                                        !.born = now, !.ttl = ttl]
            /\ mem_cache' = DictSet(mem_cache, key,
                                    [expire |-> expire, data |-> data,
                                     owner |-> pair, born |-> now])
            /\ disk' = CASE write = "ok" ->
                              DictSet(disk, key,
                                      [kind |-> "entry", expire |-> expire,
                                       data |-> JsonRoundTrip(data),
                                       owner |-> pair, born |-> now])
                         [] write = "untouched" -> disk
                         [] write = "truncated" ->
                              DictSet(disk, key,
                                      [kind |-> "badjson", expire |-> 0,
                                       data |-> "none", owner |-> NoPair, born |-> 0])

\* clear()
clear ==
    /\ mem_cache' = EmptyDict
    /\ disk' = EmptyDict
    /\ c_last' = NoCall
    /\ UNCHANGED <<rvars, ovars, now, cache_enabled, puts>>

\* The process restarts: the module is loaded again with an empty
\* _mem_cache; the files stay.
restart ==
    /\ mem_cache # EmptyDict
    /\ mem_cache' = EmptyDict
    /\ c_last' = NoCall
    /\ UNCHANGED <<rvars, ovars, disk, now, cache_enabled, puts>>

\* settings.cache_enabled is set (CBB_CACHE_ENABLED, or a test's monkeypatch).
set_cache_enabled(b) ==
    /\ cache_enabled # b
    /\ cache_enabled' = b
    /\ c_last' = NoCall
    /\ UNCHANGED <<rvars, ovars, mem_cache, disk, now, puts>>

\* Time passes.  c_last keeps a get()'s result only for the moment it was
\* returned at; a put() stays the most recent call.
tick ==
    /\ now < MaxTime
    /\ now' = now + 1
    /\ c_last' = IF c_last.op = "put" THEN c_last ELSE NoCall
    /\ UNCHANGED <<rvars, ovars, mem_cache, disk, cache_enabled, puts>>

\* Something other than put() leaves a file of the given content under the
\* key's name in the cache directory.
file_damaged(namespace, args, kind) ==
    /\ IF cache_key(namespace, args) \in DOMAIN disk
       THEN disk[cache_key(namespace, args)].kind # kind
       ELSE TRUE
    /\ disk' = DictSet(disk, cache_key(namespace, args),
                       [kind |-> kind, expire |-> 0, data |-> "none",
                        owner |-> NoPair, born |-> 0])
    /\ c_last' = NoCall
    /\ UNCHANGED <<rvars, ovars, mem_cache, now, cache_enabled, puts>>

\* The cache with files that are not what put() wrote.
DNext ==
    \/ \E p \in CachePairs : get(p.ns, p.args)
    \/ \E p \in CachePairs, data \in Data, write \in {"ok", "truncated"} :
          put(p.ns, p.args, data, MaxTTL, write)
    \/ \E p \in CachePairs, kind \in CorruptKinds : file_damaged(p.ns, p.args, kind)
    \/ restart
    \/ tick

CNext ==
    \/ \E p \in CachePairs : get(p.ns, p.args)
    \/ \E p \in CachePairs, data \in Data, ttl \in {0, MaxTTL},
          write \in {"ok", "untouched"} :
          put(p.ns, p.args, data, ttl, write)
    \/ clear
    \/ restart
    \/ \E b \in BOOLEAN : set_cache_enabled(b)
    \/ tick

RNext ==
    \/ \E capability \in DataCapability, method_name \in MethodNames :
           resolve_begin(capability, method_name)
    \/ resolve_acquired
    \/ \E outcome \in {"ok", "SourceError", "NotFound", "Exception", "NotImplemented"} :
           resolve_returned(outcome)
    \/ resolve_finished

(***************************************************************************)
(* utils/rate_limiter.py: TokenBucket.  Time is counted in ticks and tokens *)
(* in units of 1 / tb_period token, so that `elapsed * rate` adds one unit  *)
(* per tick and `(1 - tokens) / rate` is a whole number of ticks.           *)
(***************************************************************************)
Callers == 1..NumCallers

Min(a, b) == IF a < b THEN a ELSE b

\* A bucket TokenBucket(rate=1, capacity=1), which starts full.
TInit ==
    /\ tb_period = 1
    /\ tb_capacity = 1
    /\ tb_tokens = 1
    /\ tb_last_refill = 0
    /\ tb_clock = 0
    /\ tb_created = 0
    /\ tb_locked = 0
    /\ tb_waiters = <<>>
    /\ tb_pc = [c \in Callers |-> "idle"]
    /\ tb_wake = [c \in Callers |-> 0]
    /\ tb_started = 0
    /\ tb_returned = 0
    /\ tb_first = -1
    /\ tb_last_return = 0

\* TokenBucket.__init__(rate, capacity), with rate = 1 / period: another
\* bucket is made, before any acquire(); it starts full.
TokenBucket(period, capacity) ==
    /\ tb_started = 0
    /\ <<period, capacity>> # <<tb_period, tb_capacity>>
    /\ tb_period' = period
    /\ tb_capacity' = capacity
    /\ tb_tokens' = capacity * period
    /\ tb_last_refill' = tb_clock
    /\ tb_created' = tb_clock
    /\ UNCHANGED <<tb_clock, tb_locked, tb_waiters, tb_pc, tb_wake, tb_started,
                   tb_returned, tb_first, tb_last_return, rvars, cvars, fvars, svars, gvars, vvars, kvars, nvars>>

\* `min(self.capacity, self.tokens + elapsed * self.rate)`
Refilled == Min(tb_capacity * tb_period, tb_tokens + (tb_clock - tb_last_refill))

\* The body of acquire() under the lock, up to its first suspension: refill,
\* then either start the sleep (keeping the lock) or take a token and leave.
Enter(c) ==
    /\ tb_last_refill' = tb_clock
    /\ IF Refilled < tb_period
       THEN /\ tb_tokens' = Refilled
            /\ tb_wake' = [tb_wake EXCEPT ![c] = tb_clock + (tb_period - Refilled)]
            /\ tb_pc' = [tb_pc EXCEPT ![c] = "sleeping"]
            /\ tb_locked' = c
            /\ UNCHANGED <<tb_returned, tb_last_return>>
       ELSE /\ tb_tokens' = Refilled - tb_period
            /\ tb_pc' = [tb_pc EXCEPT ![c] = "idle"]
            /\ tb_locked' = 0
            /\ tb_returned' = tb_returned + 1
            /\ tb_last_return' = tb_clock
            /\ UNCHANGED tb_wake

\* A caller calls acquire(): with the lock free and nobody queued it runs the
\* body at once, else it queues on the lock.
acquire(c) ==
    /\ tb_pc[c] = "idle"
    /\ tb_started < MaxAcquires
    /\ tb_started' = tb_started + 1
    /\ tb_first' = IF tb_first = -1 THEN tb_clock ELSE tb_first
    /\ IF tb_locked = 0 /\ tb_waiters = <<>>
       THEN Enter(c) /\ UNCHANGED tb_waiters
       ELSE /\ tb_waiters' = Append(tb_waiters, c)
            /\ tb_pc' = [tb_pc EXCEPT ![c] = "queued"]
            /\ UNCHANGED <<tb_tokens, tb_last_refill, tb_locked, tb_wake,
                           tb_returned, tb_last_return>>
    /\ UNCHANGED <<tb_period, tb_capacity, tb_clock, tb_created, rvars, cvars, fvars, svars, gvars, vvars, kvars, nvars>>

\* The lock, released, goes to the first queued caller, which runs the body.
lock_granted(c) ==
    /\ tb_locked = 0
    /\ tb_waiters # <<>>
    /\ Head(tb_waiters) = c
    /\ tb_waiters' = Tail(tb_waiters)
    /\ Enter(c)
    /\ UNCHANGED <<tb_period, tb_capacity, tb_clock, tb_created, tb_started, tb_first, rvars, cvars, fvars, svars, gvars, vvars, kvars, nvars>>

\* `await asyncio.sleep(wait_time)` is over: `self.tokens = 0`, the lock is
\* released and acquire() returns.
wake_up(c) ==
    /\ tb_pc[c] = "sleeping"
    /\ tb_clock >= tb_wake[c]
    /\ tb_tokens' = 0
    /\ tb_locked' = 0
    /\ tb_pc' = [tb_pc EXCEPT ![c] = "idle"]
    /\ tb_returned' = tb_returned + 1
    /\ tb_last_return' = tb_clock
    /\ UNCHANGED <<tb_period, tb_capacity, tb_last_refill, tb_clock, tb_created, tb_waiters,
                   tb_wake, tb_started, tb_first, rvars, cvars, fvars, svars, gvars, vvars, kvars, nvars>>

\* The monotonic clock advances.
tb_tick ==
    /\ tb_clock < MaxClock
    /\ tb_clock' = tb_clock + 1
    /\ UNCHANGED <<tb_period, tb_capacity, tb_tokens, tb_last_refill, tb_created, tb_locked,
                   tb_waiters, tb_pc, tb_wake, tb_started, tb_returned, tb_first,
                   tb_last_return, rvars, cvars, fvars, svars, gvars, vvars, kvars, nvars>>

TNext ==
    \/ \E period \in 1..MaxPeriod, capacity \in 1..MaxCapacity : TokenBucket(period, capacity)
    \/ \E c \in Callers : acquire(c)
    \/ \E c \in Callers : lock_granted(c)
    \/ \E c \in Callers : wake_up(c)
    \/ tb_tick

(***************************************************************************)
(* utils/http_client.py: fetch_json.                                        *)
(***************************************************************************)
\* What one `session.get` of fetch_json can meet: a 200 with a JSON body
\* within the size limit, a 200 whose body is no JSON, a 200 with a body
\* above MAX_RESPONSE_SIZE, a 429, another error status, a connection
\* error, a timeout.
Responses == {"ok", "bad_json", "oversized", "429", "http_error", "conn_error", "timeout"}

\* The exception each failing response raises inside the `try`.
Raised(resp) ==
    CASE resp = "oversized" -> "ClientPayloadError"
      [] resp = "http_error" -> "ClientResponseError"
      [] resp = "conn_error" -> "ClientConnectionError"
      [] resp = "timeout" -> "TimeoutError"
      [] resp = "bad_json" -> "JSONDecodeError"

\* `except (aiohttp.ClientError, asyncio.TimeoutError)`;
\* ClientPayloadError, ClientResponseError and ClientConnectionError are
\* subclasses of aiohttp.ClientError.
Caught == {"ClientPayloadError", "ClientResponseError", "ClientConnectionError", "TimeoutError"}

\* `backoff * (2 ** attempt)`, in multiples of backoff
RECURSIVE Pow2(_)
Pow2(n) == IF n = 0 THEN 1 ELSE 2 * Pow2(n - 1)

NoOutcome == [kind |-> "none", what |-> "none"]

FInit ==
    /\ f_pc = "idle"
    /\ f_retries = 0
    /\ f_attempt = 0
    /\ f_last_error = "None"
    /\ f_outcome = NoOutcome
    /\ f_log = <<>>
    /\ f_sleeps = <<>>

\* `raise last_error` after the loop: raising None is a TypeError.
RaiseLastError(err) ==
    [kind |-> "raise", what |-> IF err = "None" THEN "TypeError" ELSE err]

\* The loop moves on from attempt a: to the next request, or past the loop.
EndOfAttempt(a, err) ==
    IF a < f_retries
    THEN /\ f_pc' = "request"
         /\ f_attempt' = a + 1
         /\ f_outcome' = f_outcome
    ELSE /\ f_pc' = "done"
         /\ f_attempt' = a
         /\ f_outcome' = RaiseLastError(err)

\* fetch_json(url, retries=retries) is called.
fetch_json(retries) ==
    /\ f_pc \in {"idle", "done"}
    /\ f_pc' = "request"
    /\ f_retries' = retries
    /\ f_attempt' = 0
    /\ f_last_error' = "None"
    /\ f_outcome' = NoOutcome
    /\ f_log' = <<>>
    /\ f_sleeps' = <<>>
    /\ UNCHANGED <<rvars, cvars, tvars, svars, gvars, vvars, kvars, nvars>>

\* The request of the current attempt ends with resp.
response(resp) ==
    /\ f_pc = "request"
    /\ f_log' = Append(f_log, resp)
    /\ UNCHANGED <<f_retries, rvars, cvars, tvars, svars, gvars, vvars, kvars, nvars>>
    /\ CASE resp = "ok" ->
              /\ f_pc' = "done"
              /\ f_outcome' = [kind |-> "value", what |-> "json"]
              /\ UNCHANGED <<f_attempt, f_last_error, f_sleeps>>
         [] resp = "429" ->
              /\ f_pc' = "sleep"
              /\ f_sleeps' = Append(f_sleeps, [after |-> f_attempt, wait |-> Pow2(f_attempt)])
              /\ UNCHANGED <<f_attempt, f_last_error, f_outcome>>
         [] resp \notin {"ok", "429"} /\ Raised(resp) \in Caught ->
              /\ f_last_error' = Raised(resp)
              /\ IF f_attempt < f_retries
                 THEN /\ f_pc' = "sleep"
                      /\ f_sleeps' = Append(f_sleeps, [after |-> f_attempt,
                                                        wait |-> Pow2(f_attempt)])
                      /\ UNCHANGED <<f_attempt, f_outcome>>
                 ELSE /\ EndOfAttempt(f_attempt, Raised(resp))
                      /\ UNCHANGED f_sleeps
         [] resp \notin {"ok", "429"} /\ Raised(resp) \notin Caught ->
              /\ f_pc' = "done"
              /\ f_outcome' = [kind |-> "raise", what |-> Raised(resp)]
              /\ UNCHANGED <<f_attempt, f_last_error, f_sleeps>>

\* `await asyncio.sleep(wait)` is over: `continue`, or the end of the
\* except block.
sleep_over ==
    /\ f_pc = "sleep"
    /\ EndOfAttempt(f_attempt, f_last_error)
    /\ UNCHANGED <<f_retries, f_last_error, f_log, f_sleeps, rvars, cvars, tvars, svars, gvars, vvars, kvars, nvars>>

FNext ==
    \/ \E retries \in 0..MaxRetries : fetch_json(retries)
    \/ \E resp \in Responses : response(resp)
    \/ sleep_over

(***************************************************************************)
(* services/games.py: get_live_scores, a cached service call.               *)
(***************************************************************************)
\* cache_key_args = [date, conference, str(top25)] of the calls made.
ServiceArgs == {<<"2025-02-09", "", "False">>, <<"2025-02-09", "", "True">>}

\* The order of the game states.
StatusRank(status) ==
    CASE status = "none" -> 0
      [] status = "pre" -> 1
      [] status = "in" -> 2
      [] status = "post" -> 3

\* NCAASource._map_status(state)
map_status(state) ==
    CASE state = "pre" -> "pre"
      [] state = "live" -> "in"
      [] state = "final" -> "post"
      [] state = "F" -> "post"
      [] OTHER -> state

\* The gameState the NCAA scoreboard gives for a game in the given state.
NcaaGameState(up) ==
    CASE up = "pre" -> "pre"
      [] up = "in" -> "live"
      [] up = "post" -> "final"

\* Game.status as each source's get_live_scores fills it for a game whose
\* upstream state is `up`: ESPN and sportsdataverse copy the state, NCAA maps
\* its gameState, cbbpy knows only the FINAL flag.
SourceStatus(source, up) ==
    CASE source = "espn" -> up
      [] source = "ncaa" -> map_status(NcaaGameState(up))
      [] source = "sportsdataverse" -> up
      [] source = "cbbpy" -> IF up = "post" THEN "post" ELSE "pre"

\* The list get_live_scores of a source returns: the day's one game with
\* its status, or no game.
GameList(status) ==
    CASE status = "none" -> "[]"
      [] status = "pre" -> "[g1:pre]"
      [] status = "in" -> "[g1:in]"
      [] status = "post" -> "[g1:post]"

\* The status of g1 in a list.
StatusOf(games) ==
    CASE games = "[g1:pre]" -> "pre"
      [] games = "[g1:in]" -> "in"
      [] games = "[g1:post]" -> "post"
      [] OTHER -> "none"

Report(source, up) == IF up = "none" THEN "[]" ELSE GameList(SourceStatus(source, up))

\* The sources resolve() can end up returning live scores from: each one,
\* when those before it have failed.
LiveScoreSources ==
    {get_sources_for("LIVE_SCORES")[i].name : i \in 1..Len(get_sources_for("LIVE_SCORES"))}

Further(a, b) == IF StatusRank(a) >= StatusRank(b) THEN a ELSE b

\* CACHE_TTL["live_scores"]: 30 s in the source; the model lets it span
\* MaxTTL ticks of the clock.
CACHE_TTL_live_scores == MaxTTL

\* `if cached:` Python truthiness of a cached value that is not None: an
\* empty list is false.
Truthy(data) == data # "[]"

NoneResolved == [data |-> "none", at |-> -1]

NoReturn == [kind |-> "none", args |-> <<>>, data |-> "none", from |-> "none", at |-> 0]

SInit ==
    /\ s_pc = "idle"
    /\ s_args = <<>>
    /\ s_ret = NoReturn
    /\ s_resolved = [a \in ServiceArgs |-> NoneResolved]
    /\ s_before = NoneResolved
    /\ s_calls = 0
    /\ up_status = "none"
    /\ s_seen = "none"

\* get_live_scores(date, conference, top25) is called: cache.get, and on a
\* truthy value the return of the cached games; else resolve() is awaited.
\* The cache.get is the one of utils/cache.py, with what it does to the
\* memory map and the files.
get_live_scores(args) ==
    LET key == cache_key("live_scores", args)
        cached == Lookup("live_scores", args)
    IN
    /\ s_pc = "idle"
    /\ s_calls < MaxServiceCalls
    /\ s_calls' = s_calls + 1
    /\ s_args' = args
    /\ s_before' = s_resolved[args]
    /\ IF ~cache_enabled \/ MemHit(key)
       THEN UNCHANGED <<mem_cache, disk>>
       ELSE IF DiskHit(key)
       THEN /\ mem_cache' = DictSet(mem_cache, key,
                                    [expire |-> disk[key].expire, data |-> disk[key].data,
                                     owner |-> disk[key].owner, born |-> disk[key].born])
            /\ UNCHANGED disk
       ELSE /\ mem_cache' = DictDel(mem_cache, key)
            /\ disk' = DictDel(disk, key)
    /\ IF cached.hit /\ Truthy(cached.data)
       THEN /\ s_pc' = "idle"
            /\ s_ret' = [kind |-> "value", args |-> args, data |-> cached.data,
                         from |-> "cache", at |-> now]
            /\ s_seen' = Further(s_seen, StatusOf(cached.data))
       ELSE /\ s_pc' = "resolving"
            /\ s_ret' = NoReturn
            /\ UNCHANGED s_seen
    /\ UNCHANGED <<up_status, s_resolved, now, cache_enabled, puts, c_last, rvars, tvars, fvars, gvars, vvars, kvars, nvars>>

\* The awaited resolve() returns the games of the source that answered:
\* cache.put under "live_scores" and cache_key_args with
\* CACHE_TTL["live_scores"], then `return games`.  `write` is how the disk
\* write of cache.put ends.
resolve_returns(source, write) ==
    LET games == Report(source, up_status)
        key == cache_key("live_scores", s_args)
        pair == [ns |-> "live_scores", args |-> s_args]
        expire == ExpireAt(now, CACHE_TTL_live_scores)
    IN
    /\ s_pc = "resolving"
    /\ s_pc' = "idle"
    /\ s_ret' = [kind |-> "value", args |-> s_args, data |-> games,
                 from |-> "resolve", at |-> now]
    /\ s_resolved' = [s_resolved EXCEPT ![s_args] = [data |-> games, at |-> now]]
    /\ s_seen' = Further(s_seen, StatusOf(games))
    /\ IF cache_enabled
       THEN /\ mem_cache' = DictSet(mem_cache, key,
                                    [expire |-> expire, data |-> games,
                                     owner |-> pair, born |-> now])
            /\ disk' = IF write = "ok"
                       THEN DictSet(disk, key,
                                    [kind |-> "entry", expire |-> expire,
                                     data |-> JsonRoundTrip(games),
                                     owner |-> pair, born |-> now])
                       ELSE disk
       ELSE UNCHANGED <<mem_cache, disk>>
    /\ UNCHANGED <<s_args, s_before, s_calls, up_status, now, cache_enabled, puts, c_last,
                   rvars, tvars, fvars, gvars, vvars, kvars, nvars>>

\* The awaited resolve() raises AllSourcesFailedError: nothing is cached and
\* the error leaves get_live_scores.
resolve_raises ==
    /\ s_pc = "resolving"
    /\ s_pc' = "idle"
    /\ s_ret' = [kind |-> "raise", args |-> s_args, data |-> "AllSourcesFailedError",
                 from |-> "resolve", at |-> now]
    /\ UNCHANGED <<s_args, s_resolved, s_before, s_calls, up_status, s_seen, cvars, rvars, tvars, fvars, gvars, vvars, kvars, nvars>>

\* Upstream, the game is listed, tips off, ends.
game_advances ==
    /\ up_status # "post"
    /\ up_status' = CASE up_status = "none" -> "pre"
                       [] up_status = "pre" -> "in"
                       [] up_status = "in" -> "post"
    /\ UNCHANGED <<s_pc, s_args, s_ret, s_resolved, s_before, s_calls, s_seen, cvars,
                   rvars, tvars, fvars, gvars, vvars, kvars, nvars>>

SNext ==
    \/ \E args \in ServiceArgs : get_live_scores(args)
    \/ \E source \in LiveScoreSources, write \in {"ok", "untouched"} :
          resolve_returns(source, write)
    \/ resolve_raises
    \/ game_advances
    \/ tick

(***************************************************************************)
(* server.py: the semaphore every tool body runs under.                     *)
(***************************************************************************)
MAX_CONCURRENT_CALLS == 50

ToolCalls == 1..MaxToolCalls

\* The ways a tool call leaves its body: `return` of the formatted text,
\* `except CBBError`, `except Exception`.
ExitPaths == {"return", "CBBError", "Exception"}

SeqRange(q) == {q[i] : i \in 1..Len(q)}

\* Remove x from the sequence q.
RECURSIVE SeqRemove(_, _)
SeqRemove(q, x) ==
    IF q = <<>> THEN <<>>
    ELSE IF Head(q) = x THEN Tail(q)
         ELSE <<Head(q)>> \o SeqRemove(Tail(q), x)

GInit ==
    /\ g_value = MAX_CONCURRENT_CALLS
    /\ g_waiters = <<>>
    /\ g_woken = {}
    /\ g_body = 0
    /\ g_arrived = 0
    /\ g_served = 0
    /\ g_last_exit = "none"

\* Semaphore.locked()
locked == g_value = 0 \/ g_waiters # <<>>

\* A tool call whose body is left on the given path without the semaphore
\* being released on anything but a plain return.
ReleasesOnReturnOnly(path) == path = "return"

\* `async with _concurrency:` releases the semaphore however the body is
\* left.
Releases(path) == TRUE

\* A tool is called: `async with _concurrency` acquires the semaphore at
\* once when it is not locked, else the call queues on it.
tool_call ==
    /\ g_arrived < MaxToolCalls
    /\ g_arrived' = g_arrived + 1
    /\ IF ~locked
       THEN /\ g_value' = g_value - 1
            /\ g_body' = g_body + 1
            /\ UNCHANGED g_waiters
       ELSE /\ g_waiters' = Append(g_waiters, g_arrived + 1)
            /\ UNCHANGED <<g_value, g_body>>
    /\ UNCHANGED <<g_woken, g_served, g_last_exit, rvars, cvars, tvars, fvars, svars, vvars, kvars, nvars>>

\* A tool call leaves its body: Semaphore.release() adds one to the value
\* and _wake_up_next() hands it to the first queued call that is not woken
\* yet.
tool_exit(path) ==
    LET pending == {i \in 1..Len(g_waiters) : g_waiters[i] \notin g_woken} IN
    /\ g_body > 0
    /\ g_body' = g_body - 1
    /\ g_last_exit' = path
    /\ IF Releases(path)
       THEN IF pending = {}
            THEN g_value' = g_value + 1 /\ UNCHANGED g_woken
            ELSE /\ g_woken' = g_woken \cup
                                {g_waiters[CHOOSE i \in pending : \A j \in pending : i <= j]}
                 /\ UNCHANGED g_value
       ELSE UNCHANGED <<g_value, g_woken>>
    /\ UNCHANGED <<g_waiters, g_arrived, g_served, rvars, cvars, tvars, fvars, svars, vvars, kvars, nvars>>

\* A woken call runs again: it leaves the queue, wakes the next queued call
\* when the value is above zero (`if self._value > 0: self._wake_up_next()`),
\* and enters its body.
tool_resume(t) ==
    LET pending == {i \in 1..Len(g_waiters) :
                       g_waiters[i] \notin g_woken /\ g_waiters[i] # t}
    IN
    /\ t \in g_woken
    /\ g_waiters' = SeqRemove(g_waiters, t)
    /\ g_body' = g_body + 1
    /\ g_served' = g_served + 1
    /\ IF g_value > 0 /\ pending # {}
       THEN /\ g_value' = g_value - 1
            /\ g_woken' = (g_woken \ {t}) \cup
                             {g_waiters[CHOOSE i \in pending : \A j \in pending : i <= j]}
       ELSE /\ g_woken' = g_woken \ {t}
            /\ UNCHANGED g_value
    /\ UNCHANGED <<g_arrived, g_last_exit, rvars, cvars, tvars, fvars, svars, vvars, kvars, nvars>>

GNext ==
    \/ tool_call
    \/ \E path \in ExitPaths : tool_exit(path)
    \/ \E t \in ToolCalls : tool_resume(t)

(***************************************************************************)
(* server.py: input validation of the tools.  A text is the sequence of    *)
(* its characters.                                                          *)
(***************************************************************************)
MAX_INPUT_LEN == 200

\* str.strip() removes these from both ends.
Whitespace == {" ", "\t", "\n"}

RECURSIVE LStrip(_)
LStrip(t) == IF t # <<>> /\ Head(t) \in Whitespace THEN LStrip(Tail(t)) ELSE t

RECURSIVE RStrip(_)
RStrip(t) ==
    IF t # <<>> /\ t[Len(t)] \in Whitespace THEN RStrip(SubSeq(t, 1, Len(t) - 1)) ELSE t

\* str.strip()
Strip(t) == RStrip(LStrip(t))

Chars(n, c) == [i \in 1..n |-> c]

Reject(msg) == [ok |-> FALSE, value |-> msg]

Accept(value) == [ok |-> TRUE, value |-> value]

\* _sanitize_text without the length check
sanitize_text_uncapped(text) == Accept(Strip(text))

\* _sanitize_text(text, field)
sanitize_text(text) ==
    IF Len(text) > MAX_INPUT_LEN
    THEN Reject("too long (max 200 characters)")
    ELSE Accept(Strip(text))

\* The characters of the class [a-zA-Z0-9_-].
IdChars ==
    {"a", "b", "c", "d", "e", "f", "g", "h", "i", "j", "k", "l", "m", "n",
     "o", "p", "q", "r", "s", "t", "u", "v", "w", "x", "y", "z", "A", "B",
     "C", "D", "E", "F", "G", "H", "I", "J", "K", "L", "M", "N", "O", "P",
     "Q", "R", "S", "T", "U", "V", "W", "X", "Y", "Z", "0", "1", "2", "3",
     "4", "5", "6", "7", "8", "9", "_", "-"}

\* _GAME_ID_RE.match(t): ^[a-zA-Z0-9_-]{1,30}$, where `$` also matches
\* before a newline that ends the text.
GAME_ID_RE(t) ==
    LET body == IF t # <<>> /\ t[Len(t)] = "\n" THEN SubSeq(t, 1, Len(t) - 1) ELSE t IN
    \/ Len(t) >= 1 /\ Len(t) <= 30 /\ \A i \in 1..Len(t) : t[i] \in IdChars
    \/ Len(body) >= 1 /\ Len(body) <= 30 /\ \A i \in 1..Len(body) : body[i] \in IdChars

\* _validate_game_id(game_id)
validate_game_id(game_id) ==
    IF GAME_ID_RE(Strip(game_id))
    THEN Accept(Strip(game_id))
    ELSE Reject("Invalid game ID format")

\* A date argument, by what the parsers make of it: `form` is the format
\* the text has once stripped ("empty" for none, "garbage" for one that
\* neither date.fromisoformat nor one of the three strptime formats reads),
\* `padded` whether whitespace surrounds it, `long` whether the stripped
\* text is longer than 20 characters.
DateForms == {"YYYY-MM-DD", "MM/DD/YYYY", "MM-DD-YYYY", "YYYYMMDD"}

DateInputs ==
    {[form |-> f, padded |-> p, long |-> FALSE] :
        f \in DateForms \cup {"empty", "garbage"}, p \in BOOLEAN}
    \cup {[form |-> "garbage", padded |-> FALSE, long |-> TRUE]}

\* _validate_date(d)
validate_date(d) ==
    IF d.form = "empty" /\ ~d.padded THEN Accept("today")
    ELSE IF d.long THEN Reject("Invalid date format")
    ELSE IF d.form \in DateForms THEN Accept("YYYY-MM-DD")
    ELSE Reject("Unrecognized date format")

\* _validate_season(season)
validate_season(season) ==
    IF season = 0 THEN Accept(0)
    ELSE IF ~(2000 <= season /\ season <= 2100)
         THEN Reject("Season must be between 2000 and 2100")
         ELSE Accept(season)

\* The arguments the tools are called with.
TextInputs ==
    {<<"D", "u", "k", "e">>, <<" ", "D", "u", "k", "e", " ">>,
     Chars(MAX_INPUT_LEN, "a"), Chars(MAX_INPUT_LEN + 1, "a"),
     Chars(MAX_INPUT_LEN + 1, " ")}

GameIdInputs ==
    {<<"4", "0", "1">>, <<" ", "4", "0", "1", " ">>, <<"4", "0", "1", "\n">>,
     <<"4", " ", "1">>, <<"4", ";", "1">>, <<>>, <<" ">>,
     Chars(30, "a"), Chars(31, "a")}

SeasonInputs == {0, 1999, 2000, 2025, 2100, 2101}

\* The tools and, in the order the body validates them, their validated
\* parameters: "text" goes through _sanitize_text, "opt_text" through
\* _sanitize_text when it is not empty, "game_id" through
\* _validate_game_id, "date" through _validate_date, "season" through
\* _validate_season.
Tools ==
    {[name |-> "get_team", params |-> <<"text">>],
     [name |-> "search_teams", params |-> <<"text", "opt_text">>],
     [name |-> "get_team_roster", params |-> <<"text">>],
     [name |-> "get_team_schedule", params |-> <<"text", "season">>],
     [name |-> "get_live_scores", params |-> <<"date", "opt_text">>],
     [name |-> "get_game_detail", params |-> <<"game_id">>],
     [name |-> "get_box_score", params |-> <<"game_id">>],
     [name |-> "get_play_by_play", params |-> <<"game_id">>],
     [name |-> "get_rankings", params |-> <<"text", "season">>],
     [name |-> "get_standings", params |-> <<"opt_text">>],
     [name |-> "get_team_stats", params |-> <<"text", "season">>],
     [name |-> "get_player_stats", params |-> <<"text">>],
     [name |-> "get_stat_leaders", params |-> <<"text", "season">>],
     [name |-> "compare_teams", params |-> <<"text", "text">>],
     [name |-> "get_games_by_date", params |-> <<"date", "opt_text">>],
     [name |-> "get_tournament_bracket", params |-> <<"season">>]}

InputsOf(kind) ==
    CASE kind = "text" -> TextInputs
      [] kind = "opt_text" -> TextInputs \cup {<<>>}
      [] kind = "game_id" -> GameIdInputs
      [] kind = "date" -> DateInputs
      [] kind = "season" -> SeasonInputs

ArgTuples(tool) ==
    IF Len(tool.params) = 1
    THEN {<<a>> : a \in InputsOf(tool.params[1])}
    ELSE {<<a, b>> : a \in InputsOf(tool.params[1]), b \in InputsOf(tool.params[2])}

\* The validator a parameter of the given kind goes through.
Validate(kind, x) ==
    CASE kind = "text" -> sanitize_text(x)
      [] kind = "opt_text" -> IF x # <<>> THEN sanitize_text(x) ELSE Accept(x)
      [] kind = "game_id" -> validate_game_id(x)
      [] kind = "date" -> validate_date(x)
      [] kind = "season" -> validate_season(x)

\* The first parameter, in validation order, whose validator raises
\* CBBError; 0 when none does.
FirstRejected(tool, args) ==
    LET bad == {i \in 1..Len(tool.params) : ~Validate(tool.params[i], args[i]).ok} IN
    IF bad = {} THEN 0 ELSE CHOOSE i \in bad : \A j \in bad : i <= j

NoResponse == [kind |-> "none", text |-> "none"]

VInit ==
    /\ v_pc = "idle"
    /\ v_tool = "none"
    /\ v_args = <<>>
    /\ v_clean = <<>>
    /\ v_result = NoResponse
    /\ v_ops = 0

\* A tool is called: its body validates the arguments in order; the first
\* CBBError is caught and returned as text; with none, the service function
\* is awaited with the validated arguments.
tool_called(tool, args) ==
    LET r == FirstRejected(tool, args) IN
    /\ v_pc \in {"idle", "done"}
    /\ v_tool' = tool.name
    /\ v_args' = args
    /\ IF r # 0
       THEN /\ v_pc' = "done"
            /\ v_result' = [kind |-> "text", text |-> Validate(tool.params[r], args[r]).value]
            /\ v_clean' = <<>>
            /\ v_ops' = 0
       ELSE /\ v_pc' = "service"
            /\ v_result' = NoResponse
            /\ v_clean' = [i \in 1..Len(args) |-> Validate(tool.params[i], args[i]).value]
            /\ v_ops' = 1
    /\ UNCHANGED <<rvars, cvars, tvars, fvars, svars, gvars, kvars, nvars>>

\* The awaited service function ends: its value is formatted and returned,
\* a CBBError is returned as its text, any other exception as the fixed
\* apology.
service_ended(how) ==
    /\ v_pc = "service"
    /\ v_pc' = "done"
    /\ v_result' = CASE how = "value" -> [kind |-> "text", text |-> "formatted"]
                      [] how = "CBBError" -> [kind |-> "text", text |-> "str(e)"]
                      [] how = "Exception" ->
                           [kind |-> "text", text |-> "An unexpected error occurred."]
    /\ UNCHANGED <<v_tool, v_args, v_clean, v_ops, rvars, cvars, tvars, fvars, svars, gvars, kvars, nvars>>

VNext ==
    \/ \E tool \in Tools : \E args \in ArgTuples(tool) : tool_called(tool, args)
    \/ \E how \in {"value", "CBBError", "Exception"} : service_ended(how)

(***************************************************************************)
(* sources/espn.py, sources/ncaa.py: the trend of a ranked team.            *)
(***************************************************************************)
\* The if/elif chain of ESPNSource.get_rankings
espn_trend(current, prev) ==
    IF prev = 0 THEN "new"
    ELSE IF current < prev THEN "up"
    ELSE IF current > prev THEN "down"
    ELSE "same"

\* _calc_trend with the two comparisons exchanged
calc_trend_exchanged(current, previous) ==
    IF previous = 0 THEN "new"
    ELSE IF current > previous THEN "up"
    ELSE IF current < previous THEN "down"
    ELSE "same"

\* NCAASource._calc_trend(current, previous)
calc_trend(current, previous) ==
    IF previous = 0 THEN "new"
    ELSE IF current < previous THEN "up"
    ELSE IF current > previous THEN "down"
    ELSE "same"

KInit ==
    /\ k_current = 0
    /\ k_previous = 0
    /\ k_espn = "none"
    /\ k_ncaa = "none"

\* A poll entry with the given ranks is parsed by both sources.
parse_entry(current, previous) ==
    /\ k_current' = current
    /\ k_previous' = previous
    /\ k_espn' = espn_trend(current, previous)
    /\ k_ncaa' = calc_trend(current, previous)
    /\ UNCHANGED <<rvars, cvars, tvars, fvars, svars, gvars, vvars, nvars>>

KNext == \E current \in 0..MaxRank, previous \in 0..MaxRank : parse_entry(current, previous)

(***************************************************************************)
(* Box scores: sources/espn.py (_parse_team_box), sources/cbbpy_source.py  *)
(* and sources/sportsdataverse.py (get_box_score), models/games.py.        *)
(* Percentages are held in tenths of a percent.                            *)
(***************************************************************************)
MaxPlayers == 3

\* The integer fields of PlayerBoxScore that count something.
CountingStats ==
    {"points", "rebounds", "offensive_rebounds", "defensive_rebounds", "assists",
     "steals", "blocks", "turnovers", "fouls", "fgm", "fga", "tpm", "tpa", "ftm", "fta"}

PctStats == {"fg_pct", "tp_pct", "ft_pct"}

\* PlayerBoxScore(): every field at its default.
PlayerBoxScore == [stat \in CountingStats \cup PctStats |-> 0]

\* Upstream text: a number, a made-attempted pair, or something else.
Num(n) == <<"num", n>>
MadeAtt(m, a) == <<"pair", Num(m), Num(a)>>
Dashes == <<"text">>

safe_int(val) == IF val[1] = "num" THEN val[2] ELSE 0

\* float() of a percentage column, in tenths.
safe_float(val) == IF val[1] = "num" THEN val[2] ELSE 0

parse_made_att(val) ==
    IF val[1] = "pair" THEN <<safe_int(val[2]), safe_int(val[3])>> ELSE <<0, 0>>

\* round(x, 1) of x = n / d, in tenths: to nearest, a tie to the even neighbour.
RoundTenths(n, d) ==
    LET q == n \div d
        r == n % d
    IN  IF 2 * r < d THEN q
        ELSE IF 2 * r > d THEN q + 1
        ELSE IF q % 2 = 0 THEN q ELSE q + 1

\* round(makes / attempts * 100, 1)
Pct(makes, attempts) == RoundTenths(makes * 1000, attempts)

\* Athlete rows of an ESPN summary, by label.
EspnAthletes ==
    { [pts |-> Num(2), reb |-> Num(3), oreb |-> Num(1), dreb |-> Num(2), ast |-> Num(1),
       stl |-> Num(0), blk |-> Num(1), to |-> Num(1), pf |-> Num(2),
       fg |-> MadeAtt(1, 2), fg_pct |-> Num(500), tp |-> MadeAtt(0, 1), tp_pct |-> Num(0),
       ft |-> MadeAtt(0, 0), ft_pct |-> Num(0)],
      [pts |-> Num(7), reb |-> Num(1), oreb |-> Num(0), dreb |-> Num(1), ast |-> Num(2),
       stl |-> Num(1), blk |-> Num(0), to |-> Num(0), pf |-> Num(1),
       fg |-> MadeAtt(2, 3), fg_pct |-> Num(667), tp |-> MadeAtt(1, 1), tp_pct |-> Num(1000),
       ft |-> MadeAtt(2, 2), ft_pct |-> Num(1000)],
      [pts |-> Num(4), reb |-> Num(2), oreb |-> Num(2), dreb |-> Num(0), ast |-> Num(0),
       stl |-> Num(0), blk |-> Num(0), to |-> Num(2), pf |-> Num(0),
       fg |-> MadeAtt(2, 2), fg_pct |-> Num(1000), tp |-> MadeAtt(0, 0), tp_pct |-> Num(0),
       ft |-> MadeAtt(0, 1), ft_pct |-> Num(0)],
      [pts |-> Dashes, reb |-> Dashes, oreb |-> Dashes, dreb |-> Dashes, ast |-> Dashes,
       stl |-> Dashes, blk |-> Dashes, to |-> Dashes, pf |-> Dashes,
       fg |-> Dashes, fg_pct |-> Dashes, tp |-> Dashes, tp_pct |-> Dashes,
       ft |-> Dashes, ft_pct |-> Dashes] }

\* Rows of the cbbpy box-score frame of one team.
CbbpyRows ==
    { [PTS |-> 2, REB |-> 3, AST |-> 1, STL |-> 0, BLK |-> 1, TO |-> 1, PF |-> 2],
      [PTS |-> 7, REB |-> 1, AST |-> 2, STL |-> 1, BLK |-> 0, TO |-> 0, PF |-> 1],
      [PTS |-> 4, REB |-> 2, AST |-> 0, STL |-> 0, BLK |-> 0, TO |-> 2, PF |-> 0],
      [PTS |-> 0, REB |-> 0, AST |-> 0, STL |-> 0, BLK |-> 0, TO |-> 0, PF |-> 0] }

SeqsUpTo(S, n) == UNION { [1..k -> S] : k \in 0..n }

\* The PlayerBoxScore built for one ESPN athlete.
EspnPlayer(a) ==
    LET fg == parse_made_att(a.fg)
        tp == parse_made_att(a.tp)
        ft == parse_made_att(a.ft)
    IN  [points |-> safe_int(a.pts), rebounds |-> safe_int(a.reb),
         assists |-> safe_int(a.ast), steals |-> safe_int(a.stl),
         blocks |-> safe_int(a.blk), turnovers |-> safe_int(a.to),
         fouls |-> safe_int(a.pf),
         fgm |-> fg[1], fga |-> fg[2], fg_pct |-> safe_float(a.fg_pct),
         tpm |-> tp[1], tpa |-> tp[2], tp_pct |-> safe_float(a.tp_pct),
         ftm |-> ft[1], fta |-> ft[2], ft_pct |-> safe_float(a.ft_pct),
         offensive_rebounds |-> safe_int(a.oreb),
         defensive_rebounds |-> safe_int(a.dreb)]

\* The PlayerBoxScore built for one cbbpy row.
CbbpyPlayer(row) ==
    [PlayerBoxScore EXCEPT !.points = row.PTS, !.rebounds = row.REB, !.assists = row.AST,
                           !.steals = row.STL, !.blocks = row.BLK, !.turnovers = row.TO,
                           !.fouls = row.PF]

RECURSIVE SumStat(_, _)
SumStat(players, stat) ==
    IF players = <<>> THEN 0
    ELSE players[1][stat] + SumStat(Tail(players), stat)

\* The stats the loop `for p in players` of _parse_team_box adds up.
EspnSummed ==
    {"points", "rebounds", "assists", "steals", "blocks", "turnovers", "fouls",
     "fgm", "fga", "tpm", "tpa", "ftm", "fta"}

\* The totals row of _parse_team_box.
EspnTotals(players) ==
    LET sums == [stat \in CountingStats \cup PctStats |->
                    IF stat \in EspnSummed THEN SumStat(players, stat) ELSE 0]
    IN  [sums EXCEPT
            !.fg_pct = IF sums.fga # 0 THEN Pct(sums.fgm, sums.fga) ELSE 0,
            !.tp_pct = IF sums.tpa # 0 THEN Pct(sums.tpm, sums.tpa) ELSE 0,
            !.ft_pct = IF sums.fta # 0 THEN Pct(sums.ftm, sums.fta) ELSE 0]

\* No box score has been built yet.
NoBox == [source |-> "none"]

BInit == box = NoBox

\* ESPNSource._parse_team_box on one team of the summary.
espn_parse_team_box(athletes) ==
    /\ LET players == [i \in 1..Len(athletes) |-> EspnPlayer(athletes[i])]
       IN  box' = [source |-> "espn", players |-> players, totals |-> EspnTotals(players)]
    /\ UNCHANGED <<rvars, cvars, tvars, fvars, svars, gvars, vvars, kvars, hvars, dvars, mvars>>

\* CbbpySource.get_box_score, one team of the frame: totals is left at its default.
cbbpy_get_box_score(rows) ==
    /\ box' = [source |-> "cbbpy",
               players |-> [i \in 1..Len(rows) |-> CbbpyPlayer(rows[i])],
               totals |-> PlayerBoxScore]
    /\ UNCHANGED <<rvars, cvars, tvars, fvars, svars, gvars, vvars, kvars, hvars, dvars, mvars>>

\* SportsDataverseSource.get_box_score, one side: players carry identity only.
sportsdataverse_get_box_score(n) ==
    /\ box' = [source |-> "sportsdataverse",
               players |-> [i \in 1..n |-> PlayerBoxScore],
               totals |-> PlayerBoxScore]
    /\ UNCHANGED <<rvars, cvars, tvars, fvars, svars, gvars, vvars, kvars, hvars, dvars, mvars>>

BNext ==
    \/ \E athletes \in SeqsUpTo(EspnAthletes, MaxPlayers) : espn_parse_team_box(athletes)
    \/ \E rows \in SeqsUpTo(CbbpyRows, MaxPlayers) : cbbpy_get_box_score(rows)
    \/ \E n \in 0..MaxPlayers : sportsdataverse_get_box_score(n)

(***************************************************************************)
(* resolve() with an upstream that stops answering.  ESPNSource and        *)
(* NCAASource go through fetch_json on the shared session, built with      *)
(* ClientTimeout(total=30); SportsdataverseSource and CbbpySource run the  *)
(* package call in asyncio.to_thread and await it with no timeout.         *)
(***************************************************************************)
\* The sources whose requests run on the session of get_session().
HttpSources == {"espn", "ncaa"}

HInit == h_hung = FALSE

\* The upstream of the invocation in flight stops answering.
upstream_hangs ==
    /\ rpc = "call"
    /\ ~h_hung
    /\ r_method \in r_sources[r_idx].methods
    /\ h_hung' = TRUE
    /\ UNCHANGED <<rvars, cvars, tvars, fvars, svars, gvars, vvars, kvars, bvars, dvars, mvars>>

\* The session's timeout ends the request: after its retries fetch_json
\* raises asyncio.TimeoutError, the source wraps it in SourceError and the
\* loop of resolve() goes on as after any SourceError.
timeout_fires ==
    /\ rpc = "call"
    /\ h_hung
    /\ r_sources[r_idx].name \in HttpSources
    /\ h_hung' = FALSE
    /\ r_log' = [r_log EXCEPT ![Len(r_log)].outcome = "SourceError"]
    /\ LoopFrom(r_sources, r_idx + 1, r_method,
                RecordError(r_errors, r_sources[r_idx], "SourceError"))
    /\ UNCHANGED <<r_cap, r_method, r_sources, r_tokens, calls, r_prev>>
    /\ UNCHANGED <<cvars, tvars, fvars, svars, gvars, vvars, kvars, bvars, dvars, mvars>>

\* The invocation in flight ends by itself: its upstream answers.
upstream_answers(outcome) == ~h_hung /\ resolve_returned(outcome)

HNext ==
    \/ \E capability \in DataCapability, method_name \in MethodNames :
           resolve_begin(capability, method_name)
    \/ resolve_acquired
    \/ \E outcome \in {"ok", "SourceError", "NotFound", "Exception", "NotImplemented"} :
           upstream_answers(outcome)
    \/ upstream_hangs
    \/ timeout_fires
    \/ resolve_finished

(***************************************************************************)
(* services/teams.py: the team-name directory behind fuzzy_find_team.      *)
(* The module's state is held in one record, teams:                        *)
(*   team_cache  _team_cache: whether the directory holds any team         *)
(*   lock        _cache_lock: the caller holding it, 0 when free           *)
(*   waiters     _cache_lock._waiters: the callers queued for it, in order *)
(*   pc          per caller, its position in fuzzy_find_team: idle,        *)
(*               waiting, resolving, lookup                                *)
(*   populate    history: the resolve(TEAM_SEARCH, "search_teams",         *)
(*               query="") calls made to fill the directory                *)
(*   finds       number of fuzzy_find_team calls made so far               *)
(***************************************************************************)
MaxFinds == 4

\* What resolve(TEAM_SEARCH, "search_teams", query="") can come back with.
SearchResults == {"teams", "no_teams", "raises"}

DInit ==
    teams = [team_cache |-> "empty", lock |-> 0, waiters |-> <<>>,
             pc |-> [c \in Callers |-> "idle"], populate |-> 0, finds |-> 0]

\* The body of `async with _cache_lock`, entered by caller c in state t, up
\* to its first suspension point: the second check, then the resolve() call.
Populate(t, c) ==
    IF t.team_cache # "empty"
    THEN [t EXCEPT !.lock = 0, !.pc[c] = "lookup"]
    ELSE [t EXCEPT !.lock = c, !.pc[c] = "resolving", !.populate = @ + 1]

\* fuzzy_find_team(query) is called by c and runs _ensure_team_cache up to
\* its first suspension point.  Lock.acquire() takes a free lock at once
\* only when nobody is queued.
fuzzy_find_team(c) ==
    /\ teams.pc[c] = "idle"
    /\ teams.finds < MaxFinds
    /\ LET t == [teams EXCEPT !.finds = @ + 1] IN
       teams' = IF t.team_cache # "empty"
                THEN [t EXCEPT !.pc[c] = "lookup"]
                ELSE IF t.lock = 0 /\ t.waiters = <<>>
                THEN Populate(t, c)
                ELSE [t EXCEPT !.waiters = Append(@, c), !.pc[c] = "waiting"]
    /\ UNCHANGED <<rvars, cvars, tvars, fvars, svars, gvars, vvars, kvars, bvars, hvars, mvars>>

\* The release of the lock has woken the first queued caller; it leaves the
\* queue, takes the lock and goes on inside the `async with`.
lock_acquired(c) ==
    /\ teams.lock = 0
    /\ teams.waiters # <<>>
    /\ c = Head(teams.waiters)
    /\ teams' = Populate([teams EXCEPT !.waiters = Tail(@)], c)
    /\ UNCHANGED <<rvars, cvars, tvars, fvars, svars, gvars, vvars, kvars, bvars, hvars, mvars>>

\* resolve() comes back to c: the teams it returned are stored, an exception
\* is logged; the lock is released either way.
search_teams_returns(c, result) ==
    /\ teams.pc[c] = "resolving"
    /\ teams' = [teams EXCEPT !.team_cache = IF result = "teams" THEN "filled" ELSE @,
                              !.lock = 0,
                              !.pc[c] = "lookup"]
    /\ UNCHANGED <<rvars, cvars, tvars, fvars, svars, gvars, vvars, kvars, bvars, hvars, mvars>>

\* The rest of fuzzy_find_team: the exact and the fuzzy match, the fallback
\* search, then the return or TeamNotFoundError.
fuzzy_find_team_ends(c) ==
    /\ teams.pc[c] = "lookup"
    /\ teams' = [teams EXCEPT !.pc[c] = "idle"]
    /\ UNCHANGED <<rvars, cvars, tvars, fvars, svars, gvars, vvars, kvars, bvars, hvars, mvars>>

TeamsNext ==
    \/ \E c \in Callers : fuzzy_find_team(c)
    \/ \E c \in Callers : lock_acquired(c)
    \/ \E c \in Callers, result \in SearchResults : search_teams_returns(c, result)
    \/ \E c \in Callers : fuzzy_find_team_ends(c)

(***************************************************************************)
(* dashboard/ai/mcp_client.py: MCPClient.  One record, mcp, holds          *)
(*   connected   self._connected                                           *)
(*   session     self._session, named by the exit stack it was entered on; *)
(*               0 is None                                                 *)
(*   exit_stack  self._exit_stack, the n-th AsyncExitStack made; 0 is None *)
(*   lock        self._lock: the caller holding it, 0 when free            *)
(*   waiters     self._lock._waiters, in order                             *)
(*   pc          per caller: idle, waiting (for the lock), connecting (in  *)
(*               _connect), closing (in aclose of the reconnect path),     *)
(*               calling (session.call_tool of the first try), retrying    *)
(*               (session.call_tool of the reconnect path)                 *)
(*   op          per caller, the method it is in                           *)
(*   path        per caller in _connect, where it was called from          *)
(*   local       per caller: the stack its _connect made, the stack it is  *)
(*               closing, or the session it is calling                     *)
(*   live        the exit stacks opened and not closed: each holds a       *)
(*               server subprocess                                         *)
(*   made        number of AsyncExitStack objects made so far              *)
(***************************************************************************)
MaxConnects == 3

ClientOps == {"ensure_connected", "call_tool"}

\* No MCPClient has been constructed yet.
NoClient == [made |-> -1]

MInit == mcp = NoClient

\* MCPClient(): __init__.
MCPClient ==
    /\ mcp = NoClient
    /\ mcp' = [connected |-> FALSE, session |-> 0, exit_stack |-> 0, lock |-> 0,
               waiters |-> <<>>,
               pc |-> [c \in Callers |-> "idle"],
               op |-> [c \in Callers |-> "none"],
               path |-> [c \in Callers |-> "none"],
               local |-> [c \in Callers |-> 0],
               live |-> {}, made |-> 0]
    /\ UNCHANGED <<rvars, cvars, tvars, fvars, svars, gvars, vvars, kvars, bvars, hvars, dvars>>

Returned(m, c) ==
    [m EXCEPT !.pc[c] = "idle", !.op[c] = "none", !.path[c] = "none", !.local[c] = 0]

\* _connect() up to its first suspension point: a new AsyncExitStack is
\* assigned to self._exit_stack and the server process is being started on it.
ConnectBegin(m, c, path) ==
    [m EXCEPT !.made = @ + 1,
              !.exit_stack = m.made + 1,
              !.live = @ \cup {m.made + 1},
              !.local[c] = m.made + 1,
              !.pc[c] = "connecting",
              !.path[c] = path]

\* The except clause of call_tool up to its first suspension point.
ReconnectBegin(m, c) ==
    LET m1 == [m EXCEPT !.connected = FALSE, !.session = 0] IN
    IF m1.exit_stack # 0
    THEN [m1 EXCEPT !.pc[c] = "closing", !.local[c] = m1.exit_stack]
    ELSE ConnectBegin(m1, c, "reconnect")

\* ensure_connected() has returned to c without raising.
AfterEnsure(m, c) ==
    IF m.op[c] = "ensure_connected" THEN Returned(m, c)
    ELSE IF m.session = 0
    THEN ReconnectBegin(m, c)
    ELSE [m EXCEPT !.pc[c] = "calling", !.local[c] = m.session]

\* c holds the lock: the second check of ensure_connected.
Locked(m, c) ==
    IF m.connected THEN AfterEnsure([m EXCEPT !.lock = 0], c)
    ELSE ConnectBegin(m, c, "ensure")

\* ensure_connected() or call_tool() is called by c.
client_call(c, op) ==
    /\ mcp # NoClient
    /\ mcp.pc[c] = "idle"
    /\ LET m == [mcp EXCEPT !.op[c] = op]
           n == IF m.connected THEN AfterEnsure(m, c)
                ELSE IF m.lock = 0 /\ m.waiters = <<>>
                THEN Locked([m EXCEPT !.lock = c], c)
                ELSE [m EXCEPT !.waiters = Append(@, c), !.pc[c] = "waiting"]
       IN  n.made <= MaxConnects /\ mcp' = n
    /\ UNCHANGED <<rvars, cvars, tvars, fvars, svars, gvars, vvars, kvars, bvars, hvars, dvars>>

\* The released lock goes to the first queued caller.
client_lock_granted(c) ==
    /\ mcp # NoClient
    /\ mcp.lock = 0
    /\ mcp.waiters # <<>>
    /\ c = Head(mcp.waiters)
    /\ LET n == Locked([mcp EXCEPT !.waiters = Tail(@), !.lock = c], c)
       IN  n.made <= MaxConnects /\ mcp' = n
    /\ UNCHANGED <<rvars, cvars, tvars, fvars, svars, gvars, vvars, kvars, bvars, hvars, dvars>>

\* _connect() of c ends.  ok: the session entered on its stack is stored and
\* _connected is set.  Otherwise the except clause closes whatever
\* self._exit_stack is by then, resets the fields and re-raises.
connect_ends(c, ok) ==
    /\ mcp # NoClient
    /\ mcp.pc[c] = "connecting"
    /\ ok => mcp.local[c] \in mcp.live
    /\ LET m1 == IF ok
                 THEN [mcp EXCEPT !.session = mcp.local[c], !.connected = TRUE]
                 ELSE IF mcp.exit_stack = 0 THEN mcp
                 ELSE [mcp EXCEPT !.live = @ \ {mcp.exit_stack},
                                  !.exit_stack = 0, !.session = 0]
           m2 == IF mcp.path[c] = "ensure" THEN [m1 EXCEPT !.lock = 0] ELSE m1
           n == CASE ok /\ mcp.path[c] = "ensure" -> AfterEnsure(m2, c)
                  [] ok /\ mcp.path[c] = "reconnect" ->
                        [m2 EXCEPT !.pc[c] = "retrying", !.local[c] = m2.session]
                  [] ~ok /\ mcp.path[c] = "ensure" /\ mcp.op[c] = "call_tool" ->
                        ReconnectBegin(m2, c)
                  [] OTHER -> Returned(m2, c)
       IN  n.made <= MaxConnects /\ mcp' = n
    /\ UNCHANGED <<rvars, cvars, tvars, fvars, svars, gvars, vvars, kvars, bvars, hvars, dvars>>

\* `await self._exit_stack.aclose()` of the reconnect path is over for c:
\* self._exit_stack = None, then _connect().
close_ends(c) ==
    /\ mcp # NoClient
    /\ mcp.pc[c] = "closing"
    /\ LET n == ConnectBegin([mcp EXCEPT !.live = @ \ {mcp.local[c]}, !.exit_stack = 0],
                             c, "reconnect")
       IN  n.made <= MaxConnects /\ mcp' = n
    /\ UNCHANGED <<rvars, cvars, tvars, fvars, svars, gvars, vvars, kvars, bvars, hvars, dvars>>

\* session.call_tool() of c ends: with a result, or with an exception (the
\* server process is gone, or the tool call failed).
tool_returns(c, ok) ==
    /\ mcp # NoClient
    /\ mcp.pc[c] \in {"calling", "retrying"}
    /\ ok => mcp.local[c] \in mcp.live
    /\ LET n == IF ok \/ mcp.pc[c] = "retrying" THEN Returned(mcp, c)
                ELSE ReconnectBegin(mcp, c)
       IN  n.made <= MaxConnects /\ mcp' = n
    /\ UNCHANGED <<rvars, cvars, tvars, fvars, svars, gvars, vvars, kvars, bvars, hvars, dvars>>

MNext ==
    \/ MCPClient
    \/ \E c \in Callers, op \in ClientOps : client_call(c, op)
    \/ \E c \in Callers : client_lock_granted(c)
    \/ \E c \in Callers, ok \in BOOLEAN : connect_ends(c, ok)
    \/ \E c \in Callers : close_ends(c)
    \/ \E c \in Callers, ok \in BOOLEAN : tool_returns(c, ok)

Init == RInit /\ CInit /\ TInit /\ FInit /\ SInit /\ GInit /\ VInit /\ KInit /\ BInit /\ HInit /\ DInit /\ MInit

SpecResolver == Init /\ [][RNext]_vars

SpecCache == Init /\ [][CNext]_vars

SpecBucket == Init /\ [][TNext]_vars

SpecFetch == Init /\ [][FNext]_vars

SpecService == Init /\ [][SNext]_vars

SpecTools == Init /\ [][VNext]_vars

SpecTrend == Init /\ [][KNext]_vars

SpecBox == Init /\ [][BNext]_vars

\* The event loop runs a resolve() that can go on, an upstream that has not
\* hung answers, and the session's timer fires.
SpecHang ==
    /\ Init
    /\ [][HNext]_vars
    /\ WF_vars(resolve_acquired)
    /\ WF_vars(\E outcome \in {"ok", "SourceError", "NotFound", "Exception", "NotImplemented"} :
                  upstream_answers(outcome))
    /\ WF_vars(timeout_fires)

SpecCorrupt == Init /\ [][DNext]_vars

SpecTeams == Init /\ [][TeamsNext]_vars

SpecClient == Init /\ [][MNext]_vars

\* Tool bodies terminate and the event loop runs a woken call.
SpecServer ==
    /\ Init
    /\ [][GNext]_vars
    /\ WF_vars(\E path \in ExitPaths : tool_exit(path))
    /\ WF_vars(\E t \in ToolCalls : tool_resume(t))

(***************************************************************************)
(* Properties of resolve().                                                 *)
(***************************************************************************)
ConfiguredSources == {ESPNSource, NCAASource, SportsdataverseSource, CbbpySource}

SourceNamed(n) == CHOOSE s \in ConfiguredSources : s.name = n

\* The sources that declare capability c.
Declaring(c) == {s \in ConfiguredSources : c \in s.capabilities}

InFlight == {i \in 1..Len(r_log) : r_log[i].outcome = "pending"}

Failed(i) == r_log[i].outcome \in {"SourceError", "NotFound", "Exception", "NotImplemented"}

\* C1: within every resolve() call, also one that follows a failed or a
\* successful earlier call, at most one source method is in flight, the
\* invocations go in strictly ascending static priority (so no source is
\* invoked twice), and only the latest invocation can still be pending.
C1_SequentialPriorityOrder ==
    /\ Cardinality(InFlight) <= 1
    /\ \A i \in InFlight : i = Len(r_log) /\ rpc = "call"
    /\ \A i, j \in 1..Len(r_log) :
          i < j => SourceNamed(r_log[i].source).priority
                     < SourceNamed(r_log[j].source).priority
    /\ \A i, j \in 1..Len(r_log) : i # j => r_log[i].source # r_log[j].source

C1_Witness ==
    /\ calls = 2
    /\ r_prev = "AllSourcesFailedError"
    /\ rpc = "call"
    /\ Len(r_log) = 3
    /\ r_log[1].source = "espn" /\ r_log[2].source = "ncaa"

\* C2: an invocation that returned normally is the last invocation of the
\* call, resolve() has ended with that source's result, and a value that
\* resolve() returns always comes from an invocation that returned normally;
\* no AllSourcesFailedError is raised then.
C2_FirstSuccessReturned ==
    /\ \A i \in 1..Len(r_log) :
          r_log[i].outcome = "ok" =>
             /\ i = Len(r_log)
             /\ rpc \in {"done", "idle"}
             /\ r_result = [kind |-> "value", source |-> r_log[i].source]
    /\ r_result.kind = "value" =>
          /\ Len(r_log) > 0
          /\ r_log[Len(r_log)] = [source |-> r_result.source, outcome |-> "ok"]

C2_Witness ==
    /\ rpc = "done"
    /\ Len(r_log) = 2
    /\ r_log[1].outcome = "SourceError"
    /\ r_log[2].outcome = "ok"
    /\ r_result = [kind |-> "value", source |-> r_log[2].source]

\* C3: when resolve() ends and every source declaring the capability failed
\* (or none declares it), it raises AllSourcesFailedError; the errors then
\* hold one entry per declaring source, in the order the sources were
\* invoked, each naming its source; with no declaring source the list is empty
\* and nothing was invoked and no token acquired.
C3_AllFailAggregation ==
    (rpc = "done" /\ r_result.kind # "ValueError") =>
       /\ (\A i \in 1..Len(r_log) : Failed(i)) <=> r_result.kind = "AllSourcesFailedError"
       /\ r_result.kind = "AllSourcesFailedError" =>
             /\ Len(r_errors) = Cardinality(Declaring(r_cap))
             /\ Len(r_errors) = Len(r_log)
             /\ \A i \in 1..Len(r_errors) :
                   /\ r_errors[i].source = r_log[i].source
                   /\ SourceNamed(r_errors[i].source) \in Declaring(r_cap)
                   /\ r_errors[i].wrapped <=> r_log[i].outcome # "SourceError"
             /\ Declaring(r_cap) = {} => r_log = <<>> /\ r_tokens = <<>>

C3_Witness ==
    /\ rpc = "done"
    /\ r_result.kind = "AllSourcesFailedError"
    /\ Len(r_errors) = 2
    /\ r_errors[1] = [source |-> "espn", wrapped |-> FALSE]
    /\ r_errors[2] = [source |-> "ncaa", wrapped |-> TRUE]

\* C4: every source whose method is invoked, and every source a limiter
\* token is acquired for or a bucket is fetched for, declares the requested
\* capability.
C4_CapabilityFiltering ==
    /\ \A i \in 1..Len(r_log) : r_cap \in SourceNamed(r_log[i].source).capabilities
    /\ \A i \in 1..Len(r_tokens) : r_cap \in SourceNamed(r_tokens[i]).capabilities
    /\ rpc \in {"acquire", "call"} => r_cap \in r_sources[r_idx].capabilities

\* Sportsdataverse and cbbpy implement get_live_scores but do not declare
\* RANKINGS: both declaring sources have failed and neither of them was tried.
C4_Witness ==
    /\ rpc = "done"
    /\ r_cap = "RANKINGS"
    /\ r_method = "get_live_scores"
    /\ r_method \in SportsdataverseSource.methods
    /\ r_result.kind = "AllSourcesFailedError"
    /\ Len(r_log) = 2

\* C5 as stated: when ESPN fails on a team search, NCAA is consulted next
\* and, if it returns, resolve() returns its result.
C5_Original ==
    (/\ rpc = "done"
     /\ r_cap = "TEAM_SEARCH"
     /\ r_method = "search_teams"
     /\ Len(r_log) >= 1
     /\ r_log[1].source = "espn"
     /\ Failed(1))
    => \E i \in 1..Len(r_log) :
          /\ r_log[i].source = "ncaa"
          /\ r_log[i].outcome = "ok" => r_result = [kind |-> "value", source |-> "ncaa"]

\* C5 amended: ESPN is the only source declaring TEAM_SEARCH, so when it
\* fails on a team search nothing else is consulted and resolve() raises
\* AllSourcesFailedError with ESPN's single error; on live scores, which
\* NCAA declares and implements, a failed ESPN is followed by NCAA, whose
\* result is returned when it returns one.
C5_FallbackScenario ==
    /\ (/\ rpc = "done"
        /\ r_cap = "TEAM_SEARCH"
        /\ r_method = "search_teams"
        /\ Len(r_log) >= 1
        /\ Failed(1))
       => /\ Len(r_log) = 1
          /\ r_log[1].source = "espn"
          /\ r_result.kind = "AllSourcesFailedError"
          /\ Len(r_errors) = 1
          /\ r_errors[1].source = "espn"
    /\ (/\ rpc = "done"
        /\ r_cap = "LIVE_SCORES"
        /\ r_method = "get_live_scores"
        /\ Len(r_log) >= 1
        /\ Failed(1))
       => /\ r_log[1].source = "espn"
          /\ Len(r_log) >= 2
          /\ r_log[2].source = "ncaa"
          /\ r_log[2].outcome = "ok" => r_result = [kind |-> "value", source |-> "ncaa"]

C5_Witness ==
    /\ rpc = "done"
    /\ r_cap = "TEAM_SEARCH"
    /\ r_method = "search_teams"
    /\ Len(r_log) = 1
    /\ r_log[1] = [source |-> "espn", outcome |-> "SourceError"]
    /\ r_result.kind = "AllSourcesFailedError"

\* C6 as stated: when a source method raised TeamNotFoundError or
\* GameNotFoundError, resolve() ends with that not-found error.
C6_Original ==
    (rpc = "done" /\ \E i \in 1..Len(r_log) : r_log[i].outcome = "NotFound")
       => r_result.kind = "NotFound"

(***************************************************************************)
(* Properties of the cache.                                                 *)
(***************************************************************************)

\* C7: with the cache enabled, a get() that directly follows put(ns, args,
\* data=X, ttl) with ttl > 0, at a time before the put's time plus ttl,
\* is a hit and returns X as it was passed in.
C7_RoundTrip ==
    (/\ c_last.op = "get"
     /\ c_last.put_data # "none"
     /\ c_last.put_ttl > 0
     /\ now < c_last.put_at + c_last.put_ttl)
    => /\ c_last.hit
       /\ c_last.data = c_last.put_data

\* Time has passed between the put and the get, and the payload is one that
\* JSON would not give back unchanged.
C7_Witness ==
    /\ c_last.op = "get"
    /\ c_last.put_data = "tuple"
    /\ c_last.put_ttl > 0
    /\ now > c_last.put_at
    /\ now < c_last.put_at + c_last.put_ttl
    /\ c_last.hit
    /\ c_last.data = "tuple"

\* C8: whatever get() returns, from memory or from disk, is an entry whose
\* expire timestamp lies after the time of the get; an entry put with ttl=0
\* (expire equal to its put time) is therefore never returned.
C8_NeverReturnedPastExpiry ==
    (c_last.op = "get" /\ c_last.hit) =>
       /\ now < c_last.expire
       /\ c_last.born < c_last.expire
       /\ c_last.tier \in {"mem", "disk"}

\* A disk-served hit some time after the put.
C8_Witness ==
    /\ c_last.op = "get"
    /\ c_last.hit
    /\ c_last.tier = "disk"
    /\ c_last.born < now
    /\ now + 1 = c_last.expire

\* C9 as stated: get() never returns the data of an older put.  Memory is
\* written by put() and by a disk hit only, so an entry it holds for a key is
\* that of the most recent put to the key: a get() of the same namespace and
\* args that hits returns that entry's expiry and data (the data as it was
\* put, or as JSON gives it back).
C9_Original ==
    [][LET k == cache_key(c_last'.pair.ns, c_last'.pair.args) IN
       (/\ c_last'.op = "get"
        /\ c_last'.hit
        /\ k \in DOMAIN mem_cache
        /\ mem_cache[k].owner = c_last'.pair
        /\ c_last'.owner = c_last'.pair)
       => /\ c_last'.expire = mem_cache[k].expire
          /\ c_last'.data \in {mem_cache[k].data, JsonRoundTrip(mem_cache[k].data)}]_vars

\* C10 as stated: a get() for one (namespace, args) pair returns only what
\* was put under that same pair.
C10_Original ==
    (c_last.op = "get" /\ c_last.hit) => c_last.owner = c_last.pair

\* C11: while settings.cache_enabled is false, a get() reports a miss and
\* neither a get() nor a put() changes the memory map or the disk directory,
\* whatever was stored while the cache was enabled.
C11_DisabledIsInert ==
    [][(~cache_enabled /\ c_last'.op \in {"get", "put_disabled"})
          => /\ ~c_last'.hit
             /\ mem_cache' = mem_cache
             /\ disk' = disk]_vars

\* A get() while disabled for a pair whose entry is unexpired in memory and
\* on disk.
C11_Witness ==
    LET k == cache_key(c_last.pair.ns, c_last.pair.args) IN
    /\ ~cache_enabled
    /\ c_last.op = "get"
    /\ ~c_last.hit
    /\ k \in DOMAIN mem_cache
    /\ k \in DOMAIN disk
    /\ mem_cache[k].owner = c_last.pair
    /\ Unexpired(now, mem_cache[k].expire)
    /\ disk[k].kind = "entry"

\* C12 as stated: once more acquire() calls than the capacity have returned,
\* the time from the first call to the latest return is at least
\* (N - C) / R, N being the number of calls that returned.
C12_Original ==
    tb_returned > tb_capacity =>
        tb_last_return - tb_first >= (tb_returned - tb_capacity) * tb_period

\* C13 as stated: at most one caller is inside the locked body (its sleep
\* included) and it is the lock's holder; the token count stays within
\* [0, capacity]; and no token is consumed twice: the tokens consumed never
\* exceed the initial capacity plus what has accrued since.
C13_Original ==
    /\ Cardinality({c \in Callers : tb_pc[c] = "sleeping"}) <= 1
    /\ \A c \in Callers : tb_pc[c] = "sleeping" <=> tb_locked = c
    /\ tb_tokens >= 0 /\ tb_tokens <= tb_capacity * tb_period
    /\ tb_returned * tb_period <= tb_capacity * tb_period + (tb_clock - tb_created)

\* C14 as stated: when every attempt of fetch_json has been made and each
\* met a connection error, a timeout, an HTTP error status or a 429,
\* fetch_json raises a transport error (an aiohttp.ClientError or a timeout)
\* and returns no value.
C14_Original ==
    (/\ f_pc = "done"
     /\ Len(f_log) = f_retries + 1
     /\ \A i \in 1..Len(f_log) : f_log[i] \in {"429", "http_error", "conn_error", "timeout"})
    => /\ f_outcome.kind = "raise"
       /\ f_outcome.what \in Caught

\* C15 as stated: a response above the size limit is the last request of
\* the call, no sleep follows it, and fetch_json has failed with the payload
\* error.
C15_Original ==
    \A i \in 1..Len(f_log) :
       f_log[i] = "oversized" =>
          /\ i = Len(f_log)
          /\ f_pc = "done"
          /\ f_outcome = [kind |-> "raise", what |-> "ClientPayloadError"]
          /\ \A j \in 1..Len(f_sleeps) : f_sleeps[j].after # i - 1

\* C16 as stated: a get_live_scores() call that returns within the TTL
\* after resolve() last returned a result for the same cache_key_args
\* returns that result from the cache, without resolve() being invoked
\* again, whatever the result was (an empty list included); and a result
\* that resolve() returned is stored under "live_scores" and the
\* cache_key_args.
C16_Original ==
    /\ (/\ s_pc = "idle"
        /\ s_ret.kind = "value"
        /\ s_before # NoneResolved
        /\ s_ret.at < s_before.at + CACHE_TTL_live_scores)
       => /\ s_ret.from = "cache"
          /\ s_ret.data = s_before.data
    /\ (s_pc = "idle" /\ s_ret.kind = "value" /\ s_ret.from = "resolve")
       => LET key == cache_key("live_scores", s_ret.args) IN
          /\ key \in DOMAIN mem_cache
          /\ mem_cache[key].data = s_ret.data
          /\ mem_cache[key].owner = [ns |-> "live_scores", args |-> s_ret.args]

\* C17: at most MAX_CONCURRENT_CALLS tool calls are inside their body; a
\* call stays queued only while no slot is free or a woken call is about to
\* run (which then wakes it); the slots are conserved on
\* every exit path (free slots, calls in their body and slots handed to
\* woken calls add up to the cap); and every queued call leaves the queue
\* and enters its body, given that the calls in their bodies terminate.
C17_SemaphoreCap ==
    /\ [](/\ g_body <= MAX_CONCURRENT_CALLS
          /\ g_value >= 0
          /\ g_value + g_body + Cardinality(g_woken) = MAX_CONCURRENT_CALLS
          /\ g_woken \subseteq SeqRange(g_waiters)
          /\ (SeqRange(g_waiters) \ g_woken # {}) => (g_value = 0 \/ g_woken # {}))
    /\ \A t \in ToolCalls : (t \in SeqRange(g_waiters)) ~> (t \notin SeqRange(g_waiters))

\* A call that queued behind a full semaphore has entered its body after a
\* call left through `except Exception`, and the cap is reached again.
C17_Witness ==
    /\ g_body = MAX_CONCURRENT_CALLS
    /\ g_served >= 1
    /\ g_last_exit = "Exception"
    /\ g_waiters # <<>>

\* The tool of the current call.
CurrentTool == CHOOSE tool \in Tools : tool.name = v_tool

\* Malformed input as C18 words it: a text longer than 200 characters, a
\* game ID that does not match the pattern, a date that cannot be parsed, a
\* non-zero season outside 2000..2100.
MalformedAsStated(kind, x) ==
    CASE kind \in {"text", "opt_text"} -> Len(x) > MAX_INPUT_LEN
      [] kind = "game_id" ->
           ~(Len(x) >= 1 /\ Len(x) <= 30 /\ \A i \in 1..Len(x) : x[i] \in IdChars)
      [] kind = "date" -> x.long \/ x.form = "garbage" \/ (x.form = "empty" /\ x.padded)
      [] kind = "season" -> x # 0 /\ (x < 2000 \/ x > 2100)

\* The same, with the game ID taken without the whitespace around it.
MalformedStripped(kind, x) ==
    IF kind = "game_id"
    THEN LET t == Strip(x) IN
         ~(Len(t) >= 1 /\ Len(t) <= 30 /\ \A i \in 1..Len(t) : t[i] \in IdChars)
    ELSE MalformedAsStated(kind, x)

\* C18 as stated: a tool called with a malformed argument has returned the
\* error text and made no service-layer call.
C18_Original ==
    (v_pc # "idle" /\ \E i \in 1..Len(v_args) : MalformedAsStated(CurrentTool.params[i], v_args[i]))
    => /\ v_pc = "done"
       /\ v_ops = 0
       /\ v_result.kind = "text"

\* C18 amended: the game ID is judged after str.strip(): a tool called
\* with a text longer than 200 characters, a game ID that without its
\* surrounding whitespace does not match the pattern, an unparseable date
\* or a non-zero season outside 2000..2100 has returned the error text of
\* the first failing validator and made no service-layer call; a game ID
\* that only has whitespace around a matching ID is passed on stripped; and
\* no tool call ends by raising.
C18_ValidationFirst ==
    /\ (v_pc # "idle" /\ \E i \in 1..Len(v_args) :
                            MalformedStripped(CurrentTool.params[i], v_args[i]))
       => /\ v_pc = "done"
          /\ v_ops = 0
          /\ v_result.kind = "text"
          /\ v_result.text \in {"too long (max 200 characters)", "Invalid game ID format",
                                 "Invalid date format", "Unrecognized date format",
                                 "Season must be between 2000 and 2100"}
    /\ (v_pc = "service" /\ \E i \in 1..Len(v_args) : CurrentTool.params[i] = "game_id")
       => GAME_ID_RE(v_clean[1]) /\ v_clean[1] = Strip(v_args[1])
    /\ v_pc = "done" => v_result.kind = "text"

\* get_team_schedule with a good team name and season 2101: rejected by the
\* second validator, before teams.get_schedule.
C18_Witness ==
    /\ v_pc = "done"
    /\ v_tool = "get_team_schedule"
    /\ v_args = <<<<"D", "u", "k", "e">>, 2101>>
    /\ v_ops = 0
    /\ v_result = [kind |-> "text", text |-> "Season must be between 2000 and 2100"]

\* C19 as stated: the status of game g1 in a result returned to a caller,
\* from whichever source answered or from the cache, is never behind a
\* status returned for it before, in the order pre < in < post.
C19_Original ==
    (s_pc = "idle" /\ s_ret.kind = "value" /\ StatusOf(s_ret.data) # "none")
    => StatusRank(StatusOf(s_ret.data)) >= StatusRank(s_seen)

\* C20: for every parsed entry, a previous rank of 0 gives "new"; otherwise
\* a current rank below the previous gives "up", one above it "down", equal
\* ranks "same"; and the ESPN derivation and NCAASource._calc_trend agree.
C20_RankTrend ==
    k_espn # "none" =>
       /\ k_previous = 0 => k_ncaa = "new"
       /\ (k_previous # 0 /\ k_current < k_previous) => k_ncaa = "up"
       /\ (k_previous # 0 /\ k_current > k_previous) => k_ncaa = "down"
       /\ (k_previous # 0 /\ k_current = k_previous) => k_ncaa = "same"
       /\ k_espn = k_ncaa

\* previous_rank=3, current rank=2: "up" from both.
C20_Witness ==
    /\ k_previous = 3
    /\ k_current = 2
    /\ k_espn = "up"
    /\ k_ncaa = "up"

\* The percentage a totals row should carry for summed makes and attempts.
TotalsPct(players, made, att) ==
    IF SumStat(players, att) = 0 THEN 0
    ELSE Pct(SumStat(players, made), SumStat(players, att))

\* C21: in every TeamBoxScore a source's get_box_score returns, each counting
\* stat of the totals row is the sum of that stat over the players, and each
\* totals percentage is round(makes / attempts * 100, 1) of the summed makes
\* and attempts.
C21_Original ==
    box.source # "none" =>
        /\ \A stat \in CountingStats : box.totals[stat] = SumStat(box.players, stat)
        /\ box.totals.fg_pct = TotalsPct(box.players, "fgm", "fga")
        /\ box.totals.tp_pct = TotalsPct(box.players, "tpm", "tpa")
        /\ box.totals.ft_pct = TotalsPct(box.players, "ftm", "fta")

\* The bucket objects held in _limiters are pairwise distinct and every
\* token of the call was taken for the source invoked next.
TokenPerInvocation ==
    /\ Len(r_tokens) = Len(r_log)
    /\ \A i \in 1..Len(r_tokens) :
          /\ r_tokens[i] = r_log[i].source
          /\ r_tokens[i] \in DOMAIN limiters
          /\ limiters[r_tokens[i]].rate = rate_limits(r_tokens[i])
    /\ rpc = "acquire" =>
          /\ r_sources[r_idx].name \in DOMAIN limiters
          /\ \A i \in 1..Len(r_log) : r_log[i].source # r_sources[r_idx].name
    /\ \A n, m \in DOMAIN limiters : n # m => limiters[n].id # limiters[m].id

\* A step keeps every bucket, creates one only for the source about to be
\* awaited, and takes a token only together with the invocation.
BucketsKept ==
    /\ \A n \in DOMAIN limiters : n \in DOMAIN limiters' /\ limiters'[n] = limiters[n]
    /\ \A n \in (DOMAIN limiters') \ (DOMAIN limiters) :
          rpc' = "acquire" /\ r_sources'[r_idx'].name = n
    /\ Len(r_tokens') > Len(r_tokens) =>
          /\ rpc = "acquire" /\ rpc' = "call"
          /\ r_tokens' = Append(r_tokens, r_sources[r_idx].name)
          /\ r_log' = Append(r_log, [source |-> r_sources[r_idx].name, outcome |-> "pending"])

\* C22: inside resolve() each invocation of a source method is preceded by
\* exactly one token acquired from the bucket kept under that source's name,
\* no token is acquired for a source that is not invoked, and the bucket of a
\* name, once created on first use, is never replaced or removed.
C22_TokenFromNamedBucket == []TokenPerInvocation /\ [][BucketsKept]_vars

\* The second call has taken its token from the espn bucket the first call
\* created: the ncaa bucket exists and this call has not reached ncaa.
C22_Witness ==
    /\ calls = 2
    /\ rpc = "call"
    /\ r_tokens = <<"espn">>
    /\ DOMAIN limiters = {"espn", "ncaa"}
    /\ limiters["espn"].id = 1
    /\ limiters["ncaa"].id = 2

\* C23: a source that declares the capability but does not itself implement
\* the named method is skipped by resolve(): it is not invoked, no limiter
\* token is acquired for it, and it adds no entry to the errors of
\* AllSourcesFailedError.
C23_Original ==
    /\ \A i \in 1..Len(r_log) : r_method \in SourceNamed(r_log[i].source).methods
    /\ \A i \in 1..Len(r_tokens) : r_method \in SourceNamed(r_tokens[i]).methods
    /\ \A i \in 1..Len(r_errors) : r_method \in SourceNamed(r_errors[i].source).methods

\* The requests of the current fetch_json call that met a 429.
RateLimited == {i \in 1..Len(f_log) : f_log[i] = "429"}

\* C24 as stated: one fetch_json call issues at most retries + 1 requests and
\* then returns or raises; each 429 is followed by a sleep of
\* backoff * 2^attempt and by a further request, it is not recorded as the
\* call's failure, and at most `retries` requests are retries after a 429.
C24_Original ==
    /\ Len(f_log) <= f_retries + 1
    /\ f_pc = "done" => f_outcome.kind \in {"value", "raise"}
    /\ \A i \in RateLimited :
          /\ \E j \in 1..Len(f_sleeps) : f_sleeps[j] = [after |-> i - 1, wait |-> Pow2(i - 1)]
          /\ f_pc = "done" => i < Len(f_log)
    /\ (\A i \in 1..Len(f_log) : f_log[i] = "429") => f_last_error = "None"
    /\ Cardinality({i \in RateLimited : i < Len(f_log)}) <= f_retries

\* C25: every resolve() call ends, by returning a result or by raising, also
\* when the upstream of a source it invokes hangs, whichever source that is.
C25_Original == (rpc \in {"acquire", "call"}) ~> (rpc = "done")

\* What a get() of key finds before it runs.
MemExpired(key) == key \in DOMAIN mem_cache /\ ~Unexpired(now, mem_cache[key].expire)

DiskFresh(key) ==
    key \in DOMAIN disk /\ disk[key].kind = "entry" /\ Unexpired(now, disk[key].expire)

DiskExpired(key) ==
    key \in DOMAIN disk /\ disk[key].kind = "entry" /\ ~Unexpired(now, disk[key].expire)

\* The read path of one get(namespace, args) step, as C26 states it.
ReadPath(namespace, args) ==
    LET key == cache_key(namespace, args) IN
    /\ (~MemHit(key) /\ DiskFresh(key)) =>
          /\ c_last'.hit
          /\ c_last'.data = disk[key].data
          /\ key \in DOMAIN mem_cache'
          /\ mem_cache'[key].expire = disk[key].expire
          /\ mem_cache'[key].data = disk[key].data
          /\ Unexpired(now', mem_cache'[key].expire)
    /\ (MemExpired(key) \/ (~MemHit(key) /\ DiskExpired(key))) =>
          /\ ~c_last'.hit
          /\ key \notin DOMAIN mem_cache'
          /\ key \notin DOMAIN disk'

\* C26: with the cache enabled, a get() that misses memory and finds an
\* unexpired disk file returns the file's data and stores it in memory with
\* the file's expiry, so that the next get() of the key is a memory hit; a
\* get() that finds an expired entry in memory or on disk returns a miss and
\* leaves no entry for the key in either tier.
C26_Original ==
    [][\A p \in CachePairs :
          (cache_enabled /\ get(p.ns, p.args)) => ReadPath(p.ns, p.args)]_vars

\* The file of key is there and is not what put() writes.
CorruptFile(key) == key \in DOMAIN disk /\ disk[key].kind \in CorruptKinds

\* C27: with the cache enabled, a get() that reads a corrupt file (no JSON,
\* or JSON of the wrong shape: not an object, or an object without expire or
\* data) reports a miss without raising and removes the file, so that the
\* key has no entry in either tier until the next put().
C27_Original ==
    [][\A p \in CachePairs :
          (/\ cache_enabled
           /\ ~MemHit(cache_key(p.ns, p.args))
           /\ CorruptFile(cache_key(p.ns, p.args))
           /\ get(p.ns, p.args))
          => /\ c_last'.op = "get"
             /\ ~c_last'.hit
             /\ cache_key(p.ns, p.args) \notin DOMAIN disk'
             /\ cache_key(p.ns, p.args) \notin DOMAIN mem_cache']_vars

\* C28: the team-name directory is filled by at most one
\* resolve(TEAM_SEARCH, "search_teams", query="") call per process, however
\* concurrent fuzzy_find_team callers interleave, also when the first attempt
\* fails or returns no teams.
C28_Original == teams.populate <= 1

\* A call with a method name outside the whitelist has ended in ValueError
\* with no source list, no invocation and no token; ValueError has no other
\* cause.
RejectedUntouched ==
    /\ r_method \notin ALLOWED_METHODS =>
          /\ rpc \in {"done", "idle"}
          /\ r_result = [kind |-> "ValueError", source |-> "none"]
          /\ r_sources = <<>>
          /\ r_log = <<>>
          /\ r_tokens = <<>>
          /\ r_errors = <<>>
    /\ r_result.kind = "ValueError" => r_method \notin ALLOWED_METHODS

\* The step that begins such a call ends it and leaves _limiters alone.
RejectedAtOnce ==
    (rpc = "idle" /\ rpc' # "idle" /\ r_method' \notin ALLOWED_METHODS) =>
       /\ rpc' = "done"
       /\ limiters' = limiters

\* C29: for every capability, resolve() with a method_name outside the
\* whitelist raises ValueError before any source is looked up, any limiter is
\* fetched or awaited and any source method is invoked.
C29_FailsClosed == []RejectedUntouched /\ [][RejectedAtOnce]_vars

\* The second call names an attribute every source has, for a capability
\* ESPN declares, after a first call that created buckets.
C29_Witness ==
    /\ calls = 2
    /\ rpc = "done"
    /\ r_method = "capabilities"
    /\ r_cap = "RANKINGS"
    /\ r_result.kind = "ValueError"
    /\ limiters # <<>>

\* C30: an MCPClient holds at most one live server process at any time:
\* however ensure_connected and call_tool calls interleave, the failing ones
\* that reconnect included, _connect is never running twice at once and no
\* open exit stack is overwritten in self._exit_stack without being closed.
C30_Original ==
    mcp # NoClient =>
    /\ Cardinality({c \in Callers : mcp.pc[c] = "connecting"}) <= 1
    /\ Cardinality(mcp.live) <= 1
    /\ mcp.live \subseteq {mcp.exit_stack}

====
